---- MODULE Spec2Model ----
(***************************************************************************)
(* Model of the cohere-rag repository: the Drive watch state store and     *)
(* manager (src/drive_watch.py), the notification router                   *)
(* (DriveNotificationProcessor), the job dispatcher (src/main.py) and the  *)
(* sync engine (src/img_meta_processor_gdrive.py).                         *)
(***************************************************************************)
EXTENDS Integers, Sequences, FiniteSets, TLC

\* ---------------------------------------------------------------- bounds
MaxChannels == 3   \* Drive channels ever created (uuid4 values drawn)
MaxFeed == 2       \* entries the drives' change feeds hold in total
MaxTime == 2       \* last tick of the clock
MaxJobs == 2       \* job executions alive at once
MaxRuns == 2       \* sync runs started
MaxBatch == 3      \* tasks in one batch execution
MaxEntries == 3    \* entries of the artifact a search loads
MaxTopK == 3       \* largest top_k of a search
MaxComponent == 4  \* largest absolute value of an embedding's component

\* ------------------------------------------------------------- universes
UUIDs == {"T1", "T2"}
\* Blob listing order of the company states (list_blobs is lexicographic).
UUIDOrder == <<"T1", "T2">>
FolderIds == {"FA", "FB", "FC"}
\* drive_id None ("My Drive") is the string "root": _drive_state_key maps it so.
DriveIds == {"D1", "root"}
\* folder_metadata.get("driveId") of files().get for each folder.
DriveOf(f) == IF f = "FC" THEN "root" ELSE "D1"
\* files().get(fields="parents") of a folder: FB lies inside FA.
ParentsOf(f) == IF f = "FB" THEN {"FA"} ELSE {}

VARIABLES
  \* Watch State Store and Drive's channels
  company,       \* CompanyState blobs: uuid -> record (domain = stored uuids)
  channel,       \* DriveChannelState blobs: drive_id -> record
  liveChannels,  \* channel ids Drive still delivers to
  nextChannel,   \* number of channel ids drawn so far
  \* Drive and the clock
  feed,          \* per drive: the change feed, a sequence of changes
  clock,         \* time.time()
  lastOp,        \* the call made by the latest step, with its response
  \* Notification Router: the service instances handling a webhook request
  hpc,           \* per handler: its position in handle_notification
  hst,           \* per handler: its local variables
  seen,          \* per drive: feed positions changes().list has returned
  lastDispatchAt,\* per uuid: `now` of the router's latest dispatch (0: none)
  \* Job Dispatcher
  jobs,          \* running job executions: each the tasks it has left
  \* Sync Engine: one tenant's folder tree, artifact and worker
  tree,          \* file ids now in the tenant's Drive folder tree
  artifact,      \* the persisted {uuid}.json: a sequence of entries
  artifactExists,\* whether the blob exists
  spc,           \* the worker's position: idle, loop, final, done, failed
  existing,      \* existing_embeddings
  task,          \* task_embeddings, the working copy
  todo,          \* files_to_process after the filter
  idx,           \* i of the loop over files_to_process
  runV4,         \* use_embed_v4 of the run
  listed,        \* what list_files_in_drive_folder returned to the run
  writes,        \* uploads the run attempted
  artAtStart,    \* the artifact as persisted when the run started
  prevListed,    \* listed of the run before
  prevDone,      \* whether the run before returned
  runs,          \* runs started so far
  outcome,       \* per file the run has attempted: how the attempt ended
  \* Sync Engine, batch mode: main's loop over BATCH_TASKS
  batch_tasks,   \* BATCH_TASKS: the uuids of the tasks, in list order
  batch_i,       \* i of the loop (0: main has not started)
  called,        \* the uuids process_single_uuid was called with, in order
  total_processed,
  total_errors,
  \* Search Index: the latest search call
  searched,      \* its mode and inputs, and how building the index ended
  results,       \* the list it returned
  \* Scheduler: one auto-update tenant in run_scheduled_update
  manifest,      \* file ids of the tenant's stored Manifest ({} when absent)
  schpc,         \* idle, queued (changes detected), updated (batch returned)
  company_result,\* the tenant's entry of results.company_results
  update_failed, \* whether the tenant's incremental update ended in an error
  \* Embedding Provider: the latest embed_multimodal call
  fusion,        \* provider, text_vec, image_vec, weight, final_vec
  \* Drive's folders and the router's view of them
  folder_parents, \* Drive: folder id -> its parents, as files().get answers
  parent_cache,   \* _parent_cache of the router (domain = fetched ids)
  relevance,      \* the latest change filtered for a folder_id, and the result
  \* Scheduler gate: the latest needs_update_from_manifest call
  gate,           \* the Manifest blob, the Drive listing, and the answer
  \* Watch manager: one stop_watch and one create_watch request in progress
  mgr             \* the position and the local variables of each

watchVars == <<company, channel, liveChannels, nextChannel>>
driveVars == <<feed, clock>>
routerVars == <<hpc, hst, seen, lastDispatchAt>>
batchVars == <<batch_tasks, batch_i, called, total_processed, total_errors>>
searchVars == <<searched, results>>
filterVars == <<folder_parents, parent_cache, relevance, gate, mgr>>
schedVars == <<manifest, schpc, company_result, update_failed, fusion,
               filterVars>>
syncVars == <<tree, artifact, artifactExists, spc, existing, task, todo, idx,
              runV4, listed, writes, artAtStart, prevListed, prevDone, runs,
              outcome, batchVars, searchVars, schedVars>>
\* What the watch manager's calls leave alone.
nonWatchVars == <<driveVars, routerVars, jobs, syncVars>>

\* last_job_trigger_ts None is 0: line 462 of drive_watch.py treats a stored
\* None and 0 alike, and time.time() is positive.
NoTs == 0

CompanyRec(f, v4, ts) ==
  [folder_id |-> f, drive_id |-> DriveOf(f), use_embed_v4 |-> v4,
   last_job_trigger_ts |-> ts]

\* -------------------------------------------------- DriveWatchStateStore
\* A store whose listing drops the drive filter of lines 113-119.
list_company_states_any_drive(comp, d) == DOMAIN comp

list_company_states(comp, d) == {u \in DOMAIN comp : comp[u].drive_id = d}

Remove(fn, k) == [x \in (DOMAIN fn) \ {k} |-> fn[x]]
Put(fn, k, v) == [x \in (DOMAIN fn) \cup {k} |-> IF x = k THEN v ELSE fn[x]]

\* getStartPageToken: the position right after the feed's last entry.
StartPageToken(d) == Len(feed[d]) + 1

\* A registration that forgets the stored timestamp.
cleared_trigger_ts(u) == NoTs

preserved_trigger_ts(u) ==
  IF u \in DOMAIN company THEN company[u].last_job_trigger_ts ELSE NoTs

\* The response of the manager call made by the latest step (op "none" when
\* the latest step was not a manager call).
Response(op, u, res, isNew, created, stopped) ==
  [op |-> op, uuid |-> u, drive_id |-> "none", channel_id |-> 0,
   result |-> res, count |-> 0,
   is_new_channel |-> isNew, drive_channel_created |-> created,
   drive_channel_stopped |-> stopped]
NoResponse == Response("none", "none", "none", FALSE, FALSE, FALSE)

\* ----------------------------------------------------- DriveWatchManager
\* _ensure_drive_channel with force = False, the Drive calls succeeding.
EnsureChannelOk(d) ==
  IF d \in DOMAIN channel
  THEN UNCHANGED <<channel, liveChannels, nextChannel>>
  ELSE /\ nextChannel < MaxChannels
       /\ nextChannel' = nextChannel + 1
       /\ channel' = Put(channel, d,
                         [channel_id |-> nextChannel + 1,
                          resource_id |-> nextChannel + 1,
                          page_token |-> StartPageToken(d)])
       /\ liveChannels' = liveChannels \cup {nextChannel + 1}

create_watch(u, f, v4) ==
  /\ company' = Put(company, u, CompanyRec(f, v4, preserved_trigger_ts(u)))
  /\ \/ /\ EnsureChannelOk(DriveOf(f))
        /\ lastOp' = Response("create_watch", u, "returned",
                               u \notin DOMAIN company,
                               DriveOf(f) \notin DOMAIN channel, FALSE)
     \/ \* getStartPageToken or changes().watch raises
        /\ DriveOf(f) \notin DOMAIN channel
        /\ UNCHANGED <<channel, liveChannels, nextChannel>>
        /\ lastOp' = Response("create_watch", u, "raised", FALSE, FALSE, FALSE)
  /\ UNCHANGED nonWatchVars

save_company_state_only(u, f, v4) ==
  /\ company' = Put(company, u, CompanyRec(f, v4, preserved_trigger_ts(u)))
  /\ lastOp' = Response("save_company_state_only", u, "returned",
                         FALSE, FALSE, FALSE)
  /\ UNCHANGED <<channel, liveChannels, nextChannel, nonWatchVars>>

\* channels().stop inside _stop_drive_channel: "ok", "gone" (404/410, which
\* the code swallows) or "error" (any other HttpError, which it re-raises).
StopOutcomes(c) == IF c \in liveChannels THEN {"ok", "error"} ELSE {"gone", "error"}

stop_watch(u) ==
  /\ UNCHANGED <<nextChannel, nonWatchVars>>
  /\ IF u \notin DOMAIN company
     THEN /\ lastOp' = Response("stop_watch", u, "none", FALSE, FALSE, FALSE)
          /\ UNCHANGED <<company, channel, liveChannels>>
     ELSE LET d == company[u].drive_id
              remaining == list_company_states(Remove(company, u), d)
          IN /\ company' = Remove(company, u)
             /\ IF remaining = {} /\ d \in DOMAIN channel
                THEN \E out \in StopOutcomes(channel[d].channel_id) :
                       IF out = "error"
                       THEN /\ UNCHANGED <<channel, liveChannels>>
                            /\ lastOp' = Response("stop_watch", u, "raised",
                                                  FALSE, FALSE, FALSE)
                       ELSE /\ liveChannels' = liveChannels \ {channel[d].channel_id}
                            /\ channel' = Remove(channel, d)
                            /\ lastOp' = Response("stop_watch", u, "returned",
                                                  FALSE, FALSE, TRUE)
                ELSE /\ UNCHANGED <<channel, liveChannels>>
                     /\ lastOp' = Response("stop_watch", u, "returned",
                                           FALSE, FALSE, FALSE)

\* grouped.keys() in re_register_companies: the drives of the selected
\* companies in the order their states are listed.
RECURSIVE GroupedDrives(_, _, _)
GroupedDrives(sel, i, acc) ==
  IF i > Len(UUIDOrder) THEN acc
  ELSE LET u == UUIDOrder[i]
           hit == u \in sel /\ u \in DOMAIN company
           d == company[u].drive_id
       IN GroupedDrives(sel, i + 1,
            IF hit /\ (\A k \in 1..Len(acc) : acc[k] # d)
            THEN Append(acc, d) ELSE acc)

\* _ensure_drive_channel(force=True) on the store value st, all calls succeeding.
ForceChannel(st, d) ==
  LET old == d \in DOMAIN st.channel
      live1 == IF old THEN st.live \ {st.channel[d].channel_id} ELSE st.live
      id == st.next + 1
  IN [channel |-> Put(st.channel, d,
                      [channel_id |-> id, resource_id |-> id,
                       page_token |-> StartPageToken(d)]),
      live |-> live1 \cup {id},
      next |-> id]

\* ... with a call raising: kind "stop" is channels().stop re-raising (nothing
\* was deleted yet), kind "create" is getStartPageToken or changes().watch
\* raising after the old channel was stopped and its state deleted.
ForceChannelFails(st, d, kind) ==
  IF d \in DOMAIN st.channel /\ kind = "create"
  THEN [channel |-> Remove(st.channel, d),
        live |-> st.live \ {st.channel[d].channel_id},
        next |-> st.next]
  ELSE st

RECURSIVE ReRegisterFold(_, _, _, _, _)
\* drives[i..] processed in order; failAt = 0: no call raises, else a call
\* for drives[failAt] raises and the loop is left.
ReRegisterFold(drives, i, st, failAt, kind) ==
  IF i > Len(drives) THEN st
  ELSE IF i = failAt THEN ForceChannelFails(st, drives[i], kind)
  ELSE ReRegisterFold(drives, i + 1, ForceChannel(st, drives[i]), failAt, kind)

\* uuids = {} stands for the request without a uuid list.
re_register_companies(uuids) ==
  LET sel == IF uuids = {} THEN UUIDs ELSE uuids
      drives == GroupedDrives(sel, 1, <<>>)
      st0 == [channel |-> channel, live |-> liveChannels, next |-> nextChannel]
  IN /\ UNCHANGED <<company, nonWatchVars>>
     /\ \E failAt \in 0..Len(drives), kind \in {"stop", "create"} :
          LET st == ReRegisterFold(drives, 1, st0, failAt, kind)
          IN /\ failAt = 0 => kind = "create"
             /\ st.next <= MaxChannels
             /\ channel' = st.channel
             /\ liveChannels' = st.live
             /\ nextChannel' = st.next
             /\ lastOp' = Response("re_register_companies", "none",
                                   IF failAt = 0 THEN "returned" ELSE "raised",
                                   FALSE, FALSE, FALSE)

\* ------------------------------------------------------------ environment
\* A push channel reaches its expiration (ttl): Drive stops delivering to it.
channel_expires(c) ==
  /\ c \in liveChannels
  /\ liveChannels' = liveChannels \ {c}
  /\ lastOp' = NoResponse
  /\ UNCHANGED <<company, channel, nextChannel, nonWatchVars>>

\* ------------------------------------------------------------ Drive, clock
\* The changes Drive can record in a drive's feed: a removal (no file
\* metadata) or a file changed with the given parent folder.
Changes(d) ==
  {[removed |-> TRUE, parent |-> "none"]} \cup
  {[removed |-> FALSE, parent |-> f] : f \in {g \in FolderIds : DriveOf(g) = d}}

FeedTotal == Len(feed["D1"]) + Len(feed["root"])

drive_change(d, c) ==
  /\ FeedTotal < MaxFeed
  /\ feed' = [feed EXCEPT ![d] = Append(@, c)]
  /\ lastOp' = NoResponse
  /\ UNCHANGED <<watchVars, clock, routerVars, jobs, syncVars>>

tick ==
  /\ clock < MaxTime
  /\ clock' = clock + 1
  /\ lastOp' = NoResponse
  /\ UNCHANGED <<watchVars, feed, routerVars, jobs, syncVars>>

\* ---------------------------------------------------------- Job Dispatcher
\* run_job of JobService: the execution starts, or the call raises. No
\* execution starts while MaxJobs are running (the quota of the platform).
RunJob(tasks, ok) ==
  IF ok
  THEN Len(jobs) < MaxJobs /\ jobs' = Append(jobs, tasks)
  ELSE UNCHANGED jobs

JobResponse(op, u, ok) ==
  Response(op, u, IF ok THEN "started" ELSE "raised", FALSE, FALSE, FALSE)

\* POST /vectorize
post_vectorize(u, ok) ==
  /\ RunJob(<<u>>, ok)
  /\ lastOp' = JobResponse("post_vectorize", u, ok)
  /\ UNCHANGED <<watchVars, driveVars, routerVars, syncVars>>

\* The task lists of POST /vectorize-batch.
BatchTasks == [1..2 -> UUIDs]

\* POST /vectorize-batch
post_vectorize_batch(tasks, ok) ==
  /\ RunJob(tasks, ok)
  /\ lastOp' = JobResponse("post_vectorize_batch", "none", ok)
  /\ UNCHANGED <<watchVars, driveVars, routerVars, syncVars>>

\* main() of the job: the execution's current task (a process_single_uuid
\* run) ends, by returning or by raising; the last one ends the execution.
job_task_ends(j) ==
  /\ j \in 1..Len(jobs)
  /\ jobs' = IF Len(jobs[j]) = 1
             THEN SubSeq(jobs, 1, j - 1) \o SubSeq(jobs, j + 1, Len(jobs))
             ELSE [jobs EXCEPT ![j] = Tail(@)]
  /\ lastOp' = NoResponse
  /\ UNCHANGED <<watchVars, driveVars, routerVars, syncVars>>

\* The uuids a Sync Engine run is in progress for, one per execution.
RunningFor(u) == {j \in 1..Len(jobs) : Head(jobs[j]) = u}

\* ------------------------------------------------------ Notification Router
\* (DriveNotificationProcessor.) The store is the shared bucket: no call of
\* the code takes a lock or passes a generation precondition, so requests
\* served by different instances of the service interleave at every call.
Handlers == {"h1", "h2"}

\* DRIVE_WATCH_COOLDOWN_SECONDS: 60 by default, scaled to the model's clock.
CooldownSeconds == 1

NoDriveState == [drive_id |-> "none", channel_id |-> 0, resource_id |-> 0,
                 page_token |-> 0]
HIdle == [ds |-> NoDriveState, comps |-> <<>>, token |-> 0, changes |-> <<>>,
          now |-> 0, i |-> 0, triggered |-> 0]

RouterResponse(op, u, d, res, n) ==
  [Response(op, u, res, FALSE, FALSE, FALSE) EXCEPT !.drive_id = d, !.count = n]

\* The handler returns (or raises).
Returns(h) ==
  /\ hpc' = [hpc EXCEPT ![h] = "idle"]
  /\ hst' = [hst EXCEPT ![h] = HIdle]

\* A lookup that ignores the channel id.
find_drive_state_any_channel(c) == DOMAIN channel

find_drive_state_by_channel_id(c) ==
  {d \in DOMAIN channel : channel[d].channel_id = c}

\* The drive's company states as list_company_states returns them, in blob
\* order, each with its uuid.
RECURSIVE CompanyStates(_, _)
CompanyStates(d, i) ==
  IF i > Len(UUIDOrder) THEN <<>>
  ELSE LET u == UUIDOrder[i]
       IN (IF u \in list_company_states(company, d)
           THEN <<[uuid |-> u, state |-> company[u]]>> ELSE <<>>)
          \o CompanyStates(d, i + 1)

RECURSIVE is_descendant(_, _, _)
is_descendant(candidate_id, ancestor_id, visited) ==
  IF candidate_id = ancestor_id THEN TRUE
  ELSE IF candidate_id \in visited THEN FALSE
  ELSE \E parent \in ParentsOf(candidate_id) :
         \/ parent = ancestor_id
         \/ is_descendant(parent, ancestor_id, visited \cup {candidate_id})

filter_relevant_changes(changes, folder_id) ==
  LET relevant(c) ==
        \/ c.removed
        \/ c.parent = folder_id
        \/ is_descendant(c.parent, folder_id, {})
  IN SelectSeq(changes, relevant)

\* matches of match_changes_to_companies: its keys.
match_changes_to_companies(changes, comps) ==
  {comps[k].uuid : k \in {x \in 1..Len(comps) :
      filter_relevant_changes(changes, comps[x].state.folder_id) # <<>>}}

\* A router that applies no cooldown.
NeverInCooldown(state, now) == FALSE

\* Lines 456-469: the cooldown test on the state read at line 439.
InCooldown(state, now) ==
  /\ CooldownSeconds # 0
  /\ state.last_job_trigger_ts # NoTs
  /\ now - state.last_job_trigger_ts < CooldownSeconds

\* The loop of lines 452-479 from index i on: the next company it triggers
\* a job for (0: none is left and the handler returns).
RECURSIVE NextTrigger(_, _, _, _)
NextTrigger(comps, matches, now, i) ==
  IF i > Len(comps) THEN 0
  ELSE IF comps[i].uuid \in matches /\ ~InCooldown(comps[i].state, now) THEN i
  ELSE NextTrigger(comps, matches, now, i + 1)

\* A handler that goes on to the change feed whenever the channel is known.
GoesOnIfKnown(status) == status # "unknown_channel"

\* Lines 419, 426, 433 and 441: every status but "continue" is returned at
\* once.
GoesOn(status) == status = "continue"

\* Lines 416-442 and 493-499: the drive state and the drive's company
\* states are read; the early returns.
h_receive(h, c, resource_state, changed_types) ==
  /\ hpc[h] = "idle"
  /\ LET found == find_drive_state_by_channel_id(c)
         d == CHOOSE x \in found : TRUE
         status == IF found = {} THEN "unknown_channel"
                   ELSE IF resource_state = "sync" THEN "sync"
                   ELSE IF changed_types \notin {"", "content"}
                        THEN "filtered_changed_type"
                   ELSE IF CompanyStates(d, 1) = <<>> THEN "no_companies"
                   ELSE "continue"
     IN /\ IF GoesOn(status)
           THEN /\ hpc' = [hpc EXCEPT ![h] = "feed"]
                /\ hst' = [hst EXCEPT
                             ![h].ds = [drive_id |-> d,
                                        channel_id |-> channel[d].channel_id,
                                        resource_id |-> channel[d].resource_id,
                                        page_token |-> channel[d].page_token],
                             ![h].comps = CompanyStates(d, 1),
                             ![h].token = channel[d].page_token]
           ELSE UNCHANGED <<hpc, hst>>
        \* the request and how far it got: a status other than "continue"
        \* is the status (or reason) of the response returned
        /\ lastOp' = [RouterResponse("handle_notification", "none",
                                     IF found = {} THEN "none" ELSE d,
                                     status, 0)
                        EXCEPT !.channel_id = c]
  /\ UNCHANGED <<watchVars, driveVars, seen, lastDispatchAt, jobs, syncVars>>

\* One changes().list call of the loop of lines 501-520, returning a page of
\* n changes from current_token on: with nextPageToken when the feed holds
\* more, with newStartPageToken when the page reaches the feed's end.
h_list_changes(h, n) ==
  /\ hpc[h] = "feed"
  /\ LET d == hst[h].ds.drive_id
         t == hst[h].token
         last == Len(feed[d])
     IN /\ n \in (IF t > last THEN {0} ELSE 1..(last - t + 1))
        /\ seen' = [seen EXCEPT ![d] = @ \cup (t..(t + n - 1))]
        /\ hst' = [hst EXCEPT ![h].changes = @ \o SubSeq(feed[d], t, t + n - 1),
                              ![h].token = IF t + n <= last THEN t + n
                                           ELSE last + 1]
        /\ hpc' = [hpc EXCEPT ![h] = IF t + n <= last THEN "feed" ELSE "save"]
        /\ lastOp' = RouterResponse("list_changes", "none", d, "page", n)
  /\ UNCHANGED <<watchVars, driveVars, lastDispatchAt, jobs, syncVars>>

\* A save that writes the handler's copy back as it was read.
SaveDriveStateAsRead(ds, token) ==
  channel' = Put(channel, ds.drive_id,
                 [channel_id |-> ds.channel_id, resource_id |-> ds.resource_id,
                  page_token |-> ds.page_token])

\* save_drive_state: the whole blob is written from the handler's copy.
SaveDriveState(ds, token) ==
  channel' = Put(channel, ds.drive_id,
                 [channel_id |-> ds.channel_id, resource_id |-> ds.resource_id,
                  page_token |-> token])

\* A 410 taken for the feed's end: the changes read so far are kept, and
\* the handler goes on to save and to match them.
h_list_changes_410_kept(h) ==
  /\ hpc[h] = "feed"
  /\ hpc' = [hpc EXCEPT ![h] = "save"]
  /\ lastOp' = RouterResponse("list_changes", "none", hst[h].ds.drive_id,
                              "reset", Len(hst[h].changes))
  /\ UNCHANGED <<watchVars, driveVars, hst, seen, lastDispatchAt, jobs,
                 syncVars>>

\* Lines 504-511: changes().list answers 410; the token is reset to the
\* start token, saved, and no change is handed on (lines 445-448 return).
h_list_changes_410(h) ==
  /\ hpc[h] = "feed"
  /\ SaveDriveState(hst[h].ds, StartPageToken(hst[h].ds.drive_id))
  /\ Returns(h)
  /\ lastOp' = RouterResponse("save_token", "none", hst[h].ds.drive_id,
                              "reset", 0)
  /\ UNCHANGED <<company, liveChannels, nextChannel, driveVars, seen,
                 lastDispatchAt, jobs, syncVars>>

\* A handler that defers the changes of tenants in their cooldown: when a
\* matched company is skipped, the token is saved as it was read.
h_save_token_deferring(h) ==
  /\ hpc[h] = "save"
  /\ LET matches == match_changes_to_companies(hst[h].changes, hst[h].comps)
         nxt == NextTrigger(hst[h].comps, matches, clock, 1)
         skipped == \E i \in 1..Len(hst[h].comps) :
                      /\ hst[h].comps[i].uuid \in matches
                      /\ InCooldown(hst[h].comps[i].state, clock)
     IN /\ SaveDriveState(hst[h].ds, IF skipped THEN hst[h].ds.page_token
                                                ELSE hst[h].token)
        /\ IF nxt = 0
           THEN Returns(h)
           ELSE /\ hpc' = [hpc EXCEPT ![h] = "dispatch"]
                /\ hst' = [hst EXCEPT ![h].now = clock, ![h].i = nxt]
        /\ lastOp' = RouterResponse("save_token", "none", hst[h].ds.drive_id,
                                    "advance", Cardinality(matches))
  /\ UNCHANGED <<company, liveChannels, nextChannel, driveVars, seen,
                 lastDispatchAt, jobs, syncVars>>

\* Lines 522-530 and 445-451: the new token is saved, the changes are
\* matched to the companies, and `now` is taken.
h_save_token(h) ==
  /\ hpc[h] = "save"
  /\ SaveDriveState(hst[h].ds, hst[h].token)
  /\ LET matches == match_changes_to_companies(hst[h].changes, hst[h].comps)
         nxt == NextTrigger(hst[h].comps, matches, clock, 1)
     IN /\ IF nxt = 0
           THEN Returns(h)
           ELSE /\ hpc' = [hpc EXCEPT ![h] = "dispatch"]
                /\ hst' = [hst EXCEPT ![h].now = clock, ![h].i = nxt]
        /\ lastOp' = RouterResponse("save_token", "none", hst[h].ds.drive_id,
                                    "advance", Cardinality(matches))
  /\ UNCHANGED <<company, liveChannels, nextChannel, driveVars, seen,
                 lastDispatchAt, jobs, syncVars>>

\* Lines 471-476: trigger_vectorization_job for the company at index i; when
\* it raises, handle_notification raises.
h_dispatch(h, ok) ==
  /\ hpc[h] = "dispatch"
  /\ LET u == hst[h].comps[hst[h].i].uuid
     IN /\ RunJob(<<u>>, ok)
        /\ IF ok
           THEN /\ hpc' = [hpc EXCEPT ![h] = "save_company"]
                /\ UNCHANGED hst
                /\ lastDispatchAt' = [lastDispatchAt EXCEPT ![u] = hst[h].now]
           ELSE /\ Returns(h)
                /\ UNCHANGED lastDispatchAt
        /\ lastOp' = RouterResponse("dispatch", u, hst[h].ds.drive_id,
                                    IF ok THEN "started" ELSE "raised", 0)
  /\ UNCHANGED <<watchVars, driveVars, seen, syncVars>>

\* Lines 477-479: the company state read at line 439 is written back whole,
\* with last_job_trigger_ts = now; the loop goes on.
h_save_company(h) ==
  /\ hpc[h] = "save_company"
  /\ LET cur == hst[h].comps[hst[h].i]
         matches == match_changes_to_companies(hst[h].changes, hst[h].comps)
         nxt == NextTrigger(hst[h].comps, matches, hst[h].now, hst[h].i + 1)
     IN /\ company' = Put(company, cur.uuid,
                          [cur.state EXCEPT !.last_job_trigger_ts = hst[h].now])
        /\ IF nxt = 0
           THEN Returns(h)
           ELSE /\ hpc' = [hpc EXCEPT ![h] = "dispatch"]
                /\ hst' = [hst EXCEPT ![h].i = nxt,
                                      ![h].triggered = @ + 1]
  /\ lastOp' = NoResponse
  /\ UNCHANGED <<channel, liveChannels, nextChannel, driveVars, seen,
                 lastDispatchAt, jobs, syncVars>>

\* The steps of a handler past its reads.
HandlerRuns(h) ==
  \/ \E n \in 0..MaxFeed : h_list_changes(h, n)
  \/ h_list_changes_410(h)
  \/ h_save_token(h)
  \/ \E ok \in BOOLEAN : h_dispatch(h, ok)
  \/ h_save_company(h)

\* ------------------------------------- DriveWatchManager, call by call
\* stop_watch and create_watch as the requests of two instances of the
\* service run them: every call on the store or on Drive is a step of its
\* own, and the steps of the two requests interleave.
NoMgr == [sw |-> "idle", sw_uuid |-> "none", sw_drive |-> "none",
          sw_ds |-> NoDriveState,
          cw |-> "idle", cw_uuid |-> "none", cw_drive |-> "none"]

\* What a step of the watch manager leaves alone.
MgrFrame ==
  /\ UNCHANGED <<driveVars, routerVars, jobs, batchVars, searchVars>>
  /\ UNCHANGED <<tree, artifact, artifactExists, spc, existing, task, todo, idx,
                 runV4, listed, writes, artAtStart, prevListed, prevDone, runs,
                 outcome>>
  /\ UNCHANGED <<manifest, schpc, company_result, update_failed, fusion,
                 folder_parents, parent_cache, relevance, gate>>
  /\ lastOp' = NoResponse

\* stop_watch, lines 308-312: the company state is loaded (None: the call
\* returns None) and deleted.
sw_delete_company(u) ==
  /\ mgr.sw = "idle"
  /\ IF u \notin DOMAIN company
     THEN /\ mgr' = [mgr EXCEPT !.sw = "not_found", !.sw_uuid = u]
          /\ UNCHANGED company
     ELSE /\ company' = Remove(company, u)
          /\ mgr' = [mgr EXCEPT !.sw = "list", !.sw_uuid = u,
                                !.sw_drive = company[u].drive_id]
  /\ UNCHANGED <<channel, liveChannels, nextChannel>>
  /\ MgrFrame

\* stop_watch, lines 314-316: the companies left on the drive are listed.
sw_list_remaining ==
  /\ mgr.sw = "list"
  /\ mgr' = [mgr EXCEPT !.sw =
               IF list_company_states(company, mgr.sw_drive) = {}
               THEN "load" ELSE "returned"]
  /\ UNCHANGED watchVars
  /\ MgrFrame

\* stop_watch, lines 317-318: the drive state is loaded.
sw_load_drive_state ==
  /\ mgr.sw = "load"
  /\ LET d == mgr.sw_drive
     IN mgr' = IF d \in DOMAIN channel
               THEN [mgr EXCEPT !.sw = "stop",
                       !.sw_ds = [drive_id |-> d,
                                  channel_id |-> channel[d].channel_id,
                                  resource_id |-> channel[d].resource_id,
                                  page_token |-> channel[d].page_token]]
               ELSE [mgr EXCEPT !.sw = "returned"]
  /\ UNCHANGED watchVars
  /\ MgrFrame

\* stop_watch, line 319: _stop_drive_channel on the state loaded.
sw_stop_channel(out) ==
  /\ mgr.sw = "stop"
  /\ out \in StopOutcomes(mgr.sw_ds.channel_id)
  /\ IF out = "error"
     THEN /\ mgr' = [mgr EXCEPT !.sw = "raised"]
          /\ UNCHANGED liveChannels
     ELSE /\ mgr' = [mgr EXCEPT !.sw = "delete"]
          /\ liveChannels' = liveChannels \ {mgr.sw_ds.channel_id}
  /\ UNCHANGED <<company, channel, nextChannel>>
  /\ MgrFrame

\* stop_watch, lines 320-328: the drive state is deleted and the call
\* returns.
sw_delete_drive_state ==
  /\ mgr.sw = "delete"
  /\ channel' = Remove(channel, mgr.sw_drive)
  /\ mgr' = [mgr EXCEPT !.sw = "returned"]
  /\ UNCHANGED <<company, liveChannels, nextChannel>>
  /\ MgrFrame

\* create_watch, lines 205-217: the company state is written.
cw_save_company(u, f, v4) ==
  /\ mgr.cw = "idle"
  /\ company' = Put(company, u, CompanyRec(f, v4, preserved_trigger_ts(u)))
  /\ mgr' = [mgr EXCEPT !.cw = "ensure", !.cw_uuid = u,
                        !.cw_drive = DriveOf(f)]
  /\ UNCHANGED <<channel, liveChannels, nextChannel>>
  /\ MgrFrame

\* _ensure_drive_channel, lines 263-270: the drive state is loaded; an
\* existing one is returned.
cw_load_drive_state ==
  /\ mgr.cw = "ensure"
  /\ mgr' = [mgr EXCEPT !.cw = IF mgr.cw_drive \in DOMAIN channel
                               THEN "returned" ELSE "create"]
  /\ UNCHANGED watchVars
  /\ MgrFrame

\* _ensure_drive_channel, lines 272-305: a channel is created and its
\* state saved, or getStartPageToken or changes().watch raises.
cw_create_channel(ok) ==
  /\ mgr.cw = "create"
  /\ IF ok
     THEN /\ nextChannel < MaxChannels
          /\ nextChannel' = nextChannel + 1
          /\ channel' = Put(channel, mgr.cw_drive,
                            [channel_id |-> nextChannel + 1,
                             resource_id |-> nextChannel + 1,
                             page_token |-> StartPageToken(mgr.cw_drive)])
          /\ liveChannels' = liveChannels \cup {nextChannel + 1}
          /\ mgr' = [mgr EXCEPT !.cw = "returned"]
     ELSE /\ mgr' = [mgr EXCEPT !.cw = "raised"]
          /\ UNCHANGED <<channel, liveChannels, nextChannel>>
  /\ UNCHANGED company
  /\ MgrFrame

\* ------------------------------------------------------------ Sync Engine
\* (src/img_meta_processor_gdrive.py, with DEBUG_MODE off)
\* The image files that can be in the tenant's folder tree, in the order
\* Drive lists them: a.jpg, a second file named a.jpg in the same folder
\* (Drive allows it), sub/b.png and sub/c.jpg.
DriveOrder == <<"a1", "a2", "b", "c">>
FileIds == {DriveOrder[k] : k \in 1..Len(DriveOrder)}
\* The key of lines 333 and 340: f"{folder_path}/{name}".
KeyOf(f) ==
  CASE f \in {"a1", "a2"} -> "/a.jpg"
    [] f = "b" -> "sub/b.png"
    [] OTHER -> "sub/c.jpg"
\* Files resize_image_if_needed returns None for: c.jpg holds bytes PIL
\* cannot identify.
Unreadable(f) == f = "c"

\* CHECKPOINT_INTERVAL is 100 in the source; the model's trees hold at most
\* four files, so the interval is scaled down for a checkpoint to happen.
CHECKPOINT_INTERVAL == 2

\* Length of the vector co_client.embed returns for the model of line 184:
\* embed-multilingual-v3.0 gives 1024 floats, embed-v4.0 (no output_dimension
\* is passed) gives 1536.
EmbeddingDim(use_embed_v4) == IF use_embed_v4 THEN 1536 ELSE 1024

\* result_data of lines 390-395; file stands for filepath (the webViewLink).
Entry(f, use_embed_v4) ==
  [file |-> f, key |-> KeyOf(f), dim |-> EmbeddingDim(use_embed_v4)]

Keys(entries) == {entries[k].key : k \in 1..Len(entries)}
FileKeys(files) == {KeyOf(f) : f \in files}

\* list_files_in_drive_folder: the files of the tree, in Drive's order.
ListFiles(files) ==
  LET present(f) == f \in files
  IN SelectSeq(DriveOrder, present)

\* A run without the filter of line 340: every listed file is processed.
FilesToProcessUnfiltered(files, ex) == files

\* Lines 333 and 340: the listed files whose key no existing entry has.
FilesToProcess(files, ex) ==
  LET processed_file_keys == Keys(ex)
      keep(f) == KeyOf(f) \notin processed_file_keys
  IN SelectSeq(files, keep)

\* save_checkpoint: one upload of the whole list; an exception is swallowed
\* (lines 299-301) and leaves the blob as it was.
Upload(entries, wok) ==
  /\ writes' = writes + 1
  /\ artifact' = IF wok THEN entries ELSE artifact
  /\ artifactExists' = (artifactExists \/ wok)

NoUpload == UNCHANGED <<artifact, artifactExists, writes>>

NoResult == [success |-> FALSE, errors |-> 0]

NoRelevance ==
  [change |-> [removed |-> FALSE, parents |-> <<>>], folder_id |-> "none",
   relevant |-> FALSE]

NoGate ==
  [blob |-> "none", files |-> <<>>, drive_files |-> <<>>, needs_update |-> FALSE]

NoFusion ==
  [provider |-> "none", text_vec |-> <<>>, image_vec |-> <<>>,
   weight |-> [num |-> 0, den |-> 1], final_vec |-> <<>>]

NoSearch ==
  [mode |-> "none", status |-> "none", exists |-> FALSE, raw_data |-> <<>>,
   top_k |-> 0, top_n |-> {}, exclude_files |-> {}]

SyncInit ==
  /\ tree = {}
  /\ artifact = <<>>
  /\ artifactExists = FALSE
  /\ spc = "idle"
  /\ existing = <<>>
  /\ task = <<>>
  /\ todo = <<>>
  /\ idx = 1
  /\ runV4 = FALSE
  /\ listed = {}
  /\ writes = 0
  /\ artAtStart = <<>>
  /\ prevListed = {}
  /\ prevDone = FALSE
  /\ runs = 0
  /\ outcome = <<>>
  /\ batch_tasks = <<>>
  /\ batch_i = 0
  /\ called = <<>>
  /\ total_processed = 0
  /\ total_errors = 0
  /\ searched = NoSearch
  /\ results = <<>>
  /\ manifest = {}
  /\ schpc = "idle"
  /\ company_result = NoResult
  /\ update_failed = FALSE
  /\ fusion = NoFusion
  /\ folder_parents = [f \in FolderIds |-> IF f = "FB" THEN <<"FA">> ELSE <<>>]
  /\ parent_cache = <<>>
  /\ relevance = NoRelevance
  /\ gate = NoGate
  /\ mgr = NoMgr

Frame ==
  /\ UNCHANGED <<watchVars, driveVars, routerVars, jobs, batchVars, searchVars,
                 schedVars>>
  /\ lastOp' = NoResponse

\* The run reads the tree only through its listing, so the tree changes
\* between runs, and only while a later run can still see it.
TreeMayChange == spc \notin {"loop", "final"} /\ runs < MaxRuns

drive_add_file(f) ==
  /\ TreeMayChange
  /\ f \notin tree
  /\ tree' = tree \cup {f}
  /\ UNCHANGED <<artifact, artifactExists, spc, existing, task, todo, idx,
                 runV4, listed, writes, artAtStart, prevListed, prevDone, runs,
                 outcome>>
  /\ Frame

drive_remove_file(f) ==
  /\ TreeMayChange
  /\ f \in tree
  /\ tree' = tree \ {f}
  /\ UNCHANGED <<artifact, artifactExists, spc, existing, task, todo, idx,
                 runV4, listed, writes, artAtStart, prevListed, prevDone, runs,
                 outcome>>
  /\ Frame

\* What every start of process_single_uuid does to the run's bookkeeping.
RunBegins(use_embed_v4, loadOk) ==
  /\ spc \in {"idle", "done", "failed", "killed"}
  /\ runs < MaxRuns
  /\ runs' = runs + 1
  /\ runV4' = use_embed_v4
  /\ prevListed' = listed
  /\ prevDone' = (spc = "done")
  /\ artAtStart' = artifact
  /\ idx' = 1
  /\ outcome' = <<>>
  \* load_existing_embeddings: [] when the blob is absent or the read fails
  /\ existing' = IF loadOk THEN artifact ELSE <<>>
  /\ task' = existing'

\* process_single_uuid, lines 313-347: load, list, filter.
sync_start(use_embed_v4, loadOk) ==
  /\ RunBegins(use_embed_v4, loadOk)
  /\ listed' = tree
  /\ todo' = FilesToProcess(ListFiles(tree), existing')
  /\ spc' = IF todo' = <<>> THEN "done" ELSE "loop"
  /\ writes' = 0
  /\ UNCHANGED <<tree, artifact, artifactExists>>
  /\ Frame

\* list_files_in_drive_folder raises: lines 423-433, the emergency save.
sync_list_raises ==
  \E use_embed_v4 \in BOOLEAN, loadOk \in BOOLEAN, wok \in BOOLEAN :
    /\ RunBegins(use_embed_v4, loadOk)
    /\ listed' = {}
    /\ todo' = <<>>
    /\ spc' = "failed"
    /\ IF task' # <<>>
       THEN /\ writes' = 1
            /\ artifact' = IF wok THEN task' ELSE artifact
            /\ artifactExists' = (artifactExists \/ wok)
       ELSE /\ writes' = 0
            /\ UNCHANGED <<artifact, artifactExists>>
    /\ UNCHANGED tree
    /\ Frame

FileOutcomes == {"download_error", "embed_none", "ok"}

\* How the pass over file f ends when the calls answer with out: the download
\* raises (lines 409-412), resize_image_if_needed returns None (383-385),
\* get_multimodal_embedding returns None (389), or the entry is appended.
FileOutcome(f, out) ==
  IF out = "download_error" THEN "download_error"
  ELSE IF Unreadable(f) THEN "resize_none"
  ELSE IF out = "embed_none" THEN "embed_none"
  ELSE "appended"

\* A loop that appends an entry however the pass ended.
TaskAfterAnyOutcome(entries, f, use_embed_v4, res) ==
  Append(entries, Entry(f, use_embed_v4))

\* Lines 389-396: task_embeddings after the pass over f.
TaskAfter(entries, f, use_embed_v4, res) ==
  IF res = "appended" THEN Append(entries, Entry(f, use_embed_v4)) ELSE entries

\* One pass of the loop of lines 360-412 over files_to_process[idx].
sync_file(out, wok) ==
  /\ spc = "loop"
  /\ LET f == todo[idx]
         appended == FileOutcome(f, out) = "appended"
     IN /\ task' = TaskAfter(task, f, runV4, FileOutcome(f, out))
        /\ IF appended /\ idx % CHECKPOINT_INTERVAL = 0
           THEN Upload(task', wok)
           ELSE NoUpload
        /\ outcome' = Put(outcome, f, FileOutcome(f, out))
  /\ idx' = idx + 1
  /\ spc' = IF idx = Len(todo) THEN "final" ELSE "loop"
  /\ UNCHANGED <<tree, existing, todo, runV4, listed, artAtStart, prevListed,
                 prevDone, runs>>
  /\ Frame

\* Lines 414-421: the final save, made when the working copy changed.
sync_final_save(wok) ==
  /\ spc = "final"
  /\ IF task # existing THEN Upload(task, wok) ELSE NoUpload
  /\ spc' = "done"
  /\ UNCHANGED <<tree, existing, task, todo, idx, runV4, listed, artAtStart,
                 prevListed, prevDone, runs, outcome>>
  /\ Frame

\* main's local all_embeddings as signal_handler reads it: the empty list of
\* line 499 until process_single_uuid has returned at line 526.
all_embeddings == IF spc = "done" THEN task ELSE <<>>

\* SIGTERM or SIGINT reaches the worker during or right after a run. Single
\* mode runs signal_handler (lines 502-513), which saves all_embeddings when
\* it is not empty; batch mode (lines 456-490) installs no handler and the
\* process ends at once.
sync_signal(batch, wok) ==
  /\ spc \in {"loop", "final", "done"}
  /\ runs > 0
  /\ IF ~batch /\ all_embeddings # <<>>
     THEN Upload(all_embeddings, wok)
     ELSE NoUpload
  /\ spc' = "killed"
  /\ UNCHANGED <<tree, existing, task, todo, idx, runV4, listed, artAtStart,
                 prevListed, prevDone, runs, outcome>>
  /\ Frame

\* What main's batch loop leaves alone.
BatchFrame ==
  /\ UNCHANGED <<watchVars, driveVars, routerVars, jobs, searchVars, schedVars>>
  /\ UNCHANGED <<tree, artifact, artifactExists, spc, existing, task, todo, idx,
                 runV4, listed, writes, artAtStart, prevListed, prevDone, runs,
                 outcome>>
  /\ lastOp' = NoResponse

\* The task lists a batch execution is started with (lines 35-37, 64-65:
\* an empty list ends the process before main).
BatchLists == UNION {[1..n -> UUIDs] : n \in 1..MaxBatch}

\* main() in batch mode, lines 456-464: the counters are reset.
batch_main(tasks) ==
  /\ batch_i = 0
  /\ batch_tasks' = tasks
  /\ batch_i' = 1
  /\ called' = <<>>
  /\ total_processed' = 0
  /\ total_errors' = 0
  /\ BatchFrame

\* A loop that a raising task ends.
AfterTaskAbort(i, n, raised) == IF raised THEN n + 1 ELSE i + 1

\* Lines 466, 484-488: the next i, whether the task returned or raised.
AfterTask(i, n, raised) == i + 1

\* One pass of the loop of lines 466-488: process_single_uuid is called for
\* task i and returns (lines 476-477) or raises (lines 484-488).
batch_task(raised) ==
  /\ batch_i \in 1..Len(batch_tasks)
  /\ called' = Append(called, batch_tasks[batch_i])
  /\ total_processed' = IF raised THEN total_processed ELSE total_processed + 1
  /\ total_errors' = IF raised THEN total_errors + 1 ELSE total_errors
  /\ batch_i' = AfterTask(batch_i, Len(batch_tasks), raised)
  /\ UNCHANGED batch_tasks
  /\ BatchFrame

\* ------------------------------------------------------------ Search Index
\* (ImageSearcher of search.py.) An entry of the artifact as a search sees
\* it: its filename, whether is_corrupt is set, whether it has an embedding,
\* the length of the embedding, and the cosine of the embedding with the
\* query (rows and query have non-zero norm, so every cosine is a number).
Filenames == {"a.jpg", "b.jpg"}
Similarities == 1..2
SearchEntries ==
  [filename : Filenames, is_corrupt : {FALSE}, embedding : {TRUE},
   dim : {1024}, similarity : Similarities]
  \cup {[filename |-> "a.jpg", is_corrupt |-> TRUE, embedding |-> FALSE,
          dim |-> 0, similarity |-> 2],
         [filename |-> "b.jpg", is_corrupt |-> FALSE, embedding |-> FALSE,
          dim |-> 0, similarity |-> 2],
         [filename |-> "b.jpg", is_corrupt |-> FALSE, embedding |-> TRUE,
          dim |-> 1536, similarity |-> 2]}
RawData == UNION {[1..n -> SearchEntries] : n \in 0..MaxEntries}
TopKs == 0..MaxTopK
\* top_n of a shuffle search: the empty set is None.
TopNs == {{}} \cup {{n} : n \in 1..2}

\* The tenant's {uuid}.json as a search finds it: absent, or a list.
Blobs ==
  {[exists |-> FALSE, raw_data |-> <<>>]}
  \cup {[exists |-> TRUE, raw_data |-> r] : r \in RawData}

\* similarity: None of a random result.
None == "None"

\* _load_data, lines 132-141: embeddings_data.
LoadData(raw_data) ==
  LET keep(item) == ~item.is_corrupt /\ item.embedding
  IN SelectSeq(raw_data, keep)

\* ImageSearcher.__init__ as the services see it: FileNotFoundError for an
\* absent blob (lines 102-112; HTTP 404 in main.py), another exception when
\* np.array cannot make a matrix of embeddings of different lengths (lines
\* 147, 165-168; HTTP 500), else the index.
LoadStatus(blob) ==
  IF ~blob.exists THEN "not_found"
  ELSE LET data == LoadData(blob.raw_data)
       IN IF \E i, j \in 1..Len(data) : data[i].dim # data[j].dim
          THEN "error"
          ELSE "ok"

\* Lines 196-204, the loop over the first n items: valid_indices so far.
RECURSIVE ValidIndicesUpTo(_, _, _)
ValidIndicesUpTo(embeddings_data, exclude_set, n) ==
  IF n = 0 THEN <<>>
  ELSE LET before == ValidIndicesUpTo(embeddings_data, exclude_set, n - 1)
       IN IF embeddings_data[n].filename \in exclude_set
          THEN before
          ELSE Append(before, n)

\* A candidate list that ignores exclude_files.
ValidIndicesNoExclusion(embeddings_data, exclude_set) ==
  [i \in 1..Len(embeddings_data) |-> i]

\* Lines 196-204: valid_indices.
ValidIndices(embeddings_data, exclude_set) ==
  ValidIndicesUpTo(embeddings_data, exclude_set, Len(embeddings_data))

\* The one-to-one sequences of length m over 1..n.
Injections(m, n) ==
  {p \in [1..m -> 1..n] : \A i, j \in 1..m : p[i] = p[j] => i = j}

\* Line 221, np.argsort(similarities)[::-1]: the orders argsort may return
\* (ascending, ties in any order), reversed.
ArgsortReversed(similarities) ==
  LET n == Len(similarities)
      asc == {p \in Injections(n, n) :
                \A i \in 1..n - 1 : similarities[p[i]] <= similarities[p[i + 1]]}
  IN {[i \in 1..n |-> p[n + 1 - i]] : p \in asc}

\* Line 240, results.sort(key=similarity, reverse=True): a stable sort.
RECURSIVE SortBySimilarity(_)
SortBySimilarity(rs) ==
  IF rs = <<>> THEN <<>>
  ELSE LET front == SortBySimilarity(SubSeq(rs, 1, Len(rs) - 1))
           x == rs[Len(rs)]
           j == Cardinality({i \in 1..Len(front) :
                               front[i].similarity >= x.similarity})
       IN SubSeq(front, 1, j) \o <<x>> \o SubSeq(front, j + 1, Len(front))

\* search_images, lines 184-246, for the order argsort returned and the
\* sample np.random.choice drew. A result carries the row of embeddings_data
\* it was built from (its filepath in the code).
SearchImages(embeddings_data, top_k, exclude_set, order, choice) ==
  LET valid_indices == ValidIndices(embeddings_data, exclude_set)
      pool_size == IF top_k < Len(order) THEN top_k ELSE Len(order)
      top_pool_indices == SubSeq(order, 1, pool_size)
      selected_indices == [i \in 1..Len(choice) |-> top_pool_indices[choice[i]]]
      result(sel) ==
        [filename |-> embeddings_data[valid_indices[sel]].filename,
         similarity |-> embeddings_data[valid_indices[sel]].similarity,
         row |-> valid_indices[sel]]
  IN SortBySimilarity([i \in 1..Len(choice) |-> result(selected_indices[i])])

\* The lists search_images may return (lines 184-253).
SearchImagesReturns(embeddings_data, top_k, exclude_set) ==
  LET valid_indices == ValidIndices(embeddings_data, exclude_set)
      similarities == [i \in 1..Len(valid_indices) |->
                         embeddings_data[valid_indices[i]].similarity]
      pool_size == IF top_k < Len(similarities) THEN top_k
                   ELSE Len(similarities)
      num_results == IF top_k < pool_size THEN top_k ELSE pool_size
  IN IF embeddings_data = <<>> \/ valid_indices = <<>>
     THEN {<<>>}
     ELSE {SearchImages(embeddings_data, top_k, exclude_set, order, choice) :
             order \in ArgsortReversed(similarities),
             choice \in Injections(num_results, pool_size)}

\* What a search leaves alone.
SearchFrame ==
  /\ UNCHANGED <<watchVars, driveVars, routerVars, jobs, batchVars, schedVars>>
  /\ UNCHANGED <<tree, artifact, artifactExists, spc, existing, task, todo, idx,
                 runV4, listed, writes, artAtStart, prevListed, prevDone, runs,
                 outcome>>
  /\ lastOp' = NoResponse

Searched(mode, blob, top_k, top_n, exclude_files) ==
  [mode |-> mode, status |-> LoadStatus(blob), exists |-> blob.exists,
   raw_data |-> blob.raw_data, top_k |-> top_k, top_n |-> top_n,
   exclude_files |-> exclude_files]

\* SearchService.search_ranked (main.py, lines 545-579): a new ImageSearcher
\* loads the artifact, then search_images runs with top_n_pool = top_k.
search_ranked(blob, top_k, exclude_files) ==
  /\ searched' = Searched("ranked", blob, top_k, {}, exclude_files)
  /\ IF LoadStatus(blob) # "ok"
     THEN results' = <<>>
     ELSE results' \in SearchImagesReturns(LoadData(blob.raw_data), top_k,
                                           exclude_files)
  /\ SearchFrame

Max(a, b) == IF a > b THEN a ELSE b

\* A pool of top_n entries, however many are asked for.
PoolSizeTopNOnly(top_k, top_n) ==
  IF top_n = {} THEN Max(top_k * 3, 20) ELSE CHOOSE n \in top_n : TRUE

\* main.py line 613: pool_size.
PoolSize(top_k, top_n) ==
  IF top_n = {} THEN Max(top_k * 3, 20)
  ELSE Max(CHOOSE n \in top_n : TRUE, top_k)

\* main.py lines 619-621, random.sample then sort: the increasing sequences
\* of k positions of a pool of n.
SortedSamples(n, k) ==
  {p \in [1..k -> 1..n] : \A i, j \in 1..k : i < j => p[i] < p[j]}

\* SearchService.search_shuffle (main.py, lines 581-625).
search_shuffle(blob, top_k, top_n, exclude_files) ==
  /\ searched' = Searched("shuffle", blob, top_k, top_n, exclude_files)
  /\ IF LoadStatus(blob) # "ok"
     THEN results' = <<>>
     ELSE \E pool \in SearchImagesReturns(LoadData(blob.raw_data),
                                          PoolSize(top_k, top_n), exclude_files) :
            IF Len(pool) <= top_k
            THEN results' = pool
            ELSE \E indices \in SortedSamples(Len(pool), top_k) :
                   results' = [i \in 1..top_k |-> pool[indices[i]]]
  /\ SearchFrame

\* A sample of every candidate, whatever count is.
NumToSampleAll(count, n) == n

\* search.py line 289: num_to_sample.
NumToSample(count, n) == IF count < n THEN count ELSE n

\* A random pool that ignores exclude_files.
RandomValidIndicesNoExclusion(embeddings_data, exclude_set) ==
  [i \in 1..Len(embeddings_data) |-> i]

\* search.py lines 273-280: valid_indices of random_image_search.
RandomValidIndices(embeddings_data, exclude_set) ==
  ValidIndicesUpTo(embeddings_data, exclude_set, Len(embeddings_data))

\* The lists random_image_search may return (search.py, lines 255-311):
\* np.random.choice draws num_to_sample of valid_indices without replacement.
RandomImageSearchReturns(embeddings_data, count, exclude_set) ==
  LET valid_indices == RandomValidIndices(embeddings_data, exclude_set)
      num_to_sample == NumToSample(count, Len(valid_indices))
      result(i) == [filename |-> embeddings_data[i].filename,
                    similarity |-> None, row |-> i]
  IN IF embeddings_data = <<>> \/ valid_indices = <<>>
     THEN {<<>>}
     ELSE {[j \in 1..num_to_sample |-> result(valid_indices[choice[j]])] :
             choice \in Injections(num_to_sample, Len(valid_indices))}

\* SearchService.search_random_images (main.py, lines 627-663).
search_random_images(blob, count, exclude_files) ==
  /\ searched' = Searched("random", blob, count, {}, exclude_files)
  /\ IF LoadStatus(blob) # "ok"
     THEN results' = <<>>
     ELSE results' \in RandomImageSearchReturns(LoadData(blob.raw_data), count,
                                                exclude_files)
  /\ SearchFrame

\* --------------------------------------------------------------- Scheduler
\* (ScheduledUpdater.run_scheduled_update for one auto-update tenant.)
\* The metadata the Manifest keeps of a file; md5Checksum is "None" for the
\* files Drive gives no checksum for.
Metas ==
  [modifiedTime : 1..2, size : 1..2, md5Checksum : {"None", "x"}]
DefaultMeta == [modifiedTime |-> 1, size |-> 1, md5Checksum |-> "x"]
\* The files a gate call is made about.
GateFileIds == {"a1", "b"}
\* file_id -> metadata: the "files" of a Manifest, or a Drive listing.
FileIndexes == UNION {[ids -> Metas] : ids \in SUBSET GateFileIds}
\* The index of files whose metadata never changes.
IndexOf(ids) == [f \in ids |-> DefaultMeta]

\* The Manifest blob as a gate call finds it: "ok", "absent", "unreadable"
\* (the read or json.loads raises) or "malformed" (its "files" is no mapping).
BlobKinds == {"ok", "absent", "unreadable", "malformed"}

\* load_manifest, lines 51-78, and line 131: prev_files_index; {} when the
\* blob is absent and also when the read raised (lines 76-78).
load_manifest(blob, files) == IF blob = "ok" THEN files ELSE <<>>

\* needs_update_from_manifest, lines 146-184: files removed, added or
\* modified since the Manifest was written.
needs_update_from_manifest(prev_files_index, current_files_index) ==
  LET prev_ids == DOMAIN prev_files_index
      current_ids == DOMAIN current_files_index
      removed_files == prev_ids \ current_ids
      added_files == current_ids \ prev_ids
      modified_files ==
        {file_id \in current_ids \cap prev_ids :
           \/ prev_files_index[file_id].modifiedTime
                # current_files_index[file_id].modifiedTime
           \/ prev_files_index[file_id].size # current_files_index[file_id].size
           \/ prev_files_index[file_id].md5Checksum
                # current_files_index[file_id].md5Checksum}
  IN removed_files # {} \/ added_files # {} \/ modified_files # {}

\* needs_update_from_manifest as a whole, lines 129-189: a "files" that is
\* no mapping raises at line 147 and the except of lines 186-189 answers
\* True.
NeedsUpdate(blob, files, current_files_index) ==
  IF blob = "malformed" THEN TRUE
  ELSE needs_update_from_manifest(load_manifest(blob, files),
                                  current_files_index)

\* One call of the gate for a tenant whose Manifest blob and Drive listing
\* are as given (an absent blob has no files).
gate_check(blob, files, drive_files) ==
  /\ blob = "absent" => files = <<>>
  /\ gate' = [blob |-> blob, files |-> files, drive_files |-> drive_files,
              needs_update |-> NeedsUpdate(blob, files, drive_files)]
  /\ UNCHANGED <<watchVars, driveVars, routerVars, jobs, batchVars, searchVars>>
  /\ UNCHANGED <<tree, artifact, artifactExists, spc, existing, task, todo, idx,
                 runV4, listed, writes, artAtStart, prevListed, prevDone, runs,
                 outcome>>
  /\ UNCHANGED <<manifest, schpc, company_result, update_failed, fusion,
                 folder_parents, parent_cache, relevance, mgr>>
  /\ lastOp' = NoResponse

\* What a scheduler step leaves alone.
SchedFrame ==
  /\ UNCHANGED <<watchVars, driveVars, routerVars, jobs, batchVars, searchVars>>
  /\ UNCHANGED <<tree, spc, existing, task, todo, idx, runV4, listed, writes,
                 artAtStart, prevListed, prevDone, runs, outcome>>
  /\ lastOp' = NoResponse

\* scheduler.py lines 217-257: the tenant's Drive files are listed and
\* compared with the Manifest; a check that raises queues the tenant too.
sched_check(listOk) ==
  /\ schpc = "idle"
  /\ schpc' = IF ~listOk \/ needs_update_from_manifest(IndexOf(manifest),
                                                       IndexOf(tree))
              THEN "queued" ELSE "idle"
  /\ company_result' = NoResult
  /\ update_failed' = FALSE
  /\ UNCHANGED <<manifest, artifact, artifactExists, fusion, filterVars>>
  /\ SchedFrame

\* update_company_embeddings (incremental_updater.py, lines 330-375) as
\* update_single_company sees it: UpdateStats is returned when the update
\* went through and also, with errors = 1, when anything in it raised; so
\* lines 201-212 of batch_incremental_updater.py report success either way.
update_single_company(raised) ==
  [success |-> TRUE, errors |-> IF raised THEN 1 ELSE 0]

\* scheduler.py line 260, run_batch_update for the queued tenant: the
\* incremental update keeps the entries of files still in Drive, embeds the
\* added files except those in errs, and saves (lines 237-298), or raises
\* before it saves.
sched_update(raised, errs) ==
  /\ schpc = "queued"
  /\ LET present(e) == e.file \in tree
         kept == SelectSeq(artifact, present)
         have == {artifact[k].file : k \in 1..Len(artifact)}
         add(f) == f \in tree /\ f \notin have /\ f \notin errs
         added == SelectSeq(DriveOrder, add)
         changed == have # tree
     IN IF raised \/ ~changed
        THEN UNCHANGED <<artifact, artifactExists>>
        ELSE /\ artifact' = kept \o [k \in 1..Len(added) |-> Entry(added[k], FALSE)]
             /\ artifactExists' = TRUE
  /\ update_failed' = raised
  /\ company_result' = update_single_company(raised)
  /\ schpc' = "updated"
  /\ UNCHANGED <<manifest, fusion, filterVars>>
  /\ SchedFrame

\* scheduler.py lines 262-277: for a tenant reported successful the Drive
\* files are listed again and the Manifest rewritten from them
\* (update_manifest_after_run); a listing or a save that raises is logged.
sched_manifest(ok) ==
  /\ schpc = "updated"
  /\ manifest' = IF company_result.success /\ ok THEN tree ELSE manifest
  /\ schpc' = "idle"
  /\ UNCHANGED <<company_result, update_failed, artifact, artifactExists,
                 fusion, filterVars>>
  /\ SchedFrame

\* ------------------------------------------------------ Embedding Provider
\* (embedding_providers.py.) Vectors have integer components and an integer
\* norm, so that the cosine is a fraction; the arithmetic is exact (the
\* rounding of float32 is not modelled).
RECURSIVE DotUpTo(_, _, _)
DotUpTo(a, b, n) == IF n = 0 THEN 0 ELSE DotUpTo(a, b, n - 1) + a[n] * b[n]
\* np.dot
Dot(a, b) == DotUpTo(a, b, Len(a))
HasNorm(v) == \E n \in 0..2 * MaxComponent : n * n = Dot(v, v)
\* np.linalg.norm
Norm(v) == CHOOSE n \in 0..2 * MaxComponent : n * n = Dot(v, v)

\* The embeddings a model returns: of two components, or of three (those
\* of three keep an integer norm when cut to two).
Vectors ==
  {v \in [1..2 -> -MaxComponent..MaxComponent] : HasNorm(v)}
  \cup {<<4, 0, 3>>, <<0, 0, 2>>}

\* _align_dimensions, lines 310-316: <<image_vec, text_vec>>.
AlignDimensions(image_vec, text_vec) ==
  IF Len(image_vec) = Len(text_vec)
  THEN <<image_vec, text_vec>>
  ELSE LET min_dim == IF Len(image_vec) < Len(text_vec) THEN Len(image_vec)
                      ELSE Len(text_vec)
       IN <<SubSeq(image_vec, 1, min_dim), SubSeq(text_vec, 1, min_dim)>>

\* A weight that is the cosine as it comes.
WeightUnclamped(text_vec, image_vec) ==
  IF Norm(text_vec) = 0 \/ Norm(image_vec) = 0
  THEN [num |-> 1, den |-> 2]
  ELSE [num |-> Dot(text_vec, image_vec),
        den |-> Norm(text_vec) * Norm(image_vec)]

\* Lines 157-164 and 243-250: weight, as the fraction num / den.
Weight(text_vec, image_vec) ==
  IF Norm(text_vec) = 0 \/ Norm(image_vec) = 0
  THEN [num |-> 1, den |-> 2]
  ELSE LET den == Norm(text_vec) * Norm(image_vec)
           dot_product == Dot(text_vec, image_vec)
           capped == IF dot_product < den THEN dot_product ELSE den
       IN [num |-> IF capped > 0 THEN capped ELSE 0, den |-> den]

\* Lines 166 and 252: final_vec, every component multiplied by weight.den.
FinalVec(weight, text_vec, image_vec) ==
  [k \in 1..Len(text_vec) |->
     weight.num * text_vec[k] + (weight.den - weight.num) * image_vec[k]]

\* embed_multimodal of VertexEmbeddingProvider (lines 115-170) and of
\* CohereEmbeddingProvider (lines 217-255) for the embeddings the model
\* returned; Vertex may return no text embedding (<<>>), and then the image
\* embedding stands in for it (lines 150-154).
embed_multimodal(provider, text_embedding, image_embedding) ==
  /\ provider = "cohere" => text_embedding # <<>>
  /\ LET text0 == IF text_embedding = <<>> THEN image_embedding
                  ELSE text_embedding
         aligned == AlignDimensions(image_embedding, text0)
         image_vec == aligned[1]
         text_vec == aligned[2]
         weight == Weight(text_vec, image_vec)
     IN fusion' = [provider |-> provider, text_vec |-> text_vec,
                   image_vec |-> image_vec, weight |-> weight,
                   final_vec |-> FinalVec(weight, text_vec, image_vec)]
  /\ UNCHANGED <<watchVars, driveVars, routerVars, jobs, batchVars, searchVars>>
  /\ UNCHANGED <<tree, artifact, artifactExists, spc, existing, task, todo, idx,
                 runV4, listed, writes, artAtStart, prevListed, prevDone, runs,
                 outcome>>
  /\ UNCHANGED <<manifest, schpc, company_result, update_failed, filterVars>>
  /\ lastOp' = NoResponse

\* ------------------------------------------- Router: relevance of a change
\* (drive_watch.py, lines 566-607, for a router that lives as long as the
\* service instance: main.py keeps one processor in app.state.)
\* The changes of files: a removal, or a file with its list of parents.
FileChanges ==
  {[removed |-> TRUE, parents |-> <<>>]} \cup
  {[removed |-> FALSE, parents |-> ps] :
     ps \in {<<>>, <<"FA">>, <<"FB">>, <<"FC">>, <<"FC", "FB">>}}

\* Where Drive lets a folder be moved: FA stays a root.
MoveTargets(f) ==
  CASE f = "FB" -> {<<>>, <<"FA">>, <<"FC">>}
    [] f = "FC" -> {<<>>, <<"FB">>}
    [] OTHER -> {<<>>}

\* _get_parent_ids, lines 594-607: the cached list, else what files().get
\* answers (no parents when it raises HttpError), which is cached.
GetParentIds(cache, answers, file_id) ==
  IF file_id \in DOMAIN cache
  THEN [parents |-> cache[file_id], cache |-> cache]
  ELSE [parents |-> answers[file_id],
        cache |-> Put(cache, file_id, answers[file_id])]

\* _is_descendant, lines 580-592, with the loop of lines 587-591 from the
\* k-th parent on; `visited` is one set shared by the whole descent.
RECURSIVE IsDescendant(_, _, _, _, _)
RECURSIVE IsDescendantLoop(_, _, _, _, _, _)
IsDescendant(cache, answers, candidate_id, ancestor_id, visited) ==
  IF candidate_id = ancestor_id
  THEN [found |-> TRUE, visited |-> visited, cache |-> cache]
  ELSE IF candidate_id \in visited
  THEN [found |-> FALSE, visited |-> visited, cache |-> cache]
  ELSE LET got == GetParentIds(cache, answers, candidate_id)
       IN IsDescendantLoop(got.cache, answers, got.parents, 1, ancestor_id,
                           visited \cup {candidate_id})

IsDescendantLoop(cache, answers, parents, k, ancestor_id, visited) ==
  IF k > Len(parents)
  THEN [found |-> FALSE, visited |-> visited, cache |-> cache]
  ELSE IF parents[k] = ancestor_id
  THEN [found |-> TRUE, visited |-> visited, cache |-> cache]
  ELSE LET sub == IsDescendant(cache, answers, parents[k], ancestor_id, visited)
       IN IF sub.found THEN sub
          ELSE IsDescendantLoop(sub.cache, answers, parents, k + 1,
                                ancestor_id, sub.visited)

\* Lines 574-577 from the k-th parent of the changed file on.
RECURSIVE RelevantByParents(_, _, _, _, _)
RelevantByParents(cache, answers, parents, k, folder_id) ==
  IF k > Len(parents) THEN [relevant |-> FALSE, cache |-> cache]
  ELSE IF parents[k] = folder_id THEN [relevant |-> TRUE, cache |-> cache]
  ELSE LET sub == IsDescendant(cache, answers, parents[k], folder_id, {})
       IN IF sub.found THEN [relevant |-> TRUE, cache |-> sub.cache]
          ELSE RelevantByParents(sub.cache, answers, parents, k + 1, folder_id)

\* Lines 568-577 for one change.
RelevantChange(cache, answers, change, folder_id) ==
  IF change.removed THEN [relevant |-> TRUE, cache |-> cache]
  ELSE RelevantByParents(cache, answers, change.parents, 1, folder_id)

\* _filter_relevant_changes for one change and the folder_id of a company;
\* files().get raises HttpError for the folders of `failing`.
filter_relevant_change(change, folder_id, failing) ==
  /\ LET answers == [f \in FolderIds |->
                      IF f \in failing THEN <<>> ELSE folder_parents[f]]
         res == RelevantChange(parent_cache, answers, change, folder_id)
     IN /\ relevance' = [change |-> change, folder_id |-> folder_id,
                         relevant |-> res.relevant]
        /\ parent_cache' = res.cache
  /\ UNCHANGED <<watchVars, driveVars, routerVars, jobs, batchVars, searchVars>>
  /\ UNCHANGED <<tree, artifact, artifactExists, spc, existing, task, todo, idx,
                 runV4, listed, writes, artAtStart, prevListed, prevDone, runs,
                 outcome>>
  /\ UNCHANGED <<manifest, schpc, company_result, update_failed, fusion,
                 folder_parents, gate, mgr>>
  /\ lastOp' = NoResponse

\* A user moves folder f in Drive (Drive refuses a move that closes a cycle).
drive_move_folder(f, parents) ==
  /\ parents \in MoveTargets(f)
  /\ parents # folder_parents[f]
  /\ \A k \in 1..Len(parents) : folder_parents[parents[k]] # <<f>>
  /\ folder_parents' = [folder_parents EXCEPT ![f] = parents]
  /\ UNCHANGED <<watchVars, driveVars, routerVars, jobs, batchVars, searchVars>>
  /\ UNCHANGED <<tree, artifact, artifactExists, spc, existing, task, todo, idx,
                 runV4, listed, writes, artAtStart, prevListed, prevDone, runs,
                 outcome>>
  /\ UNCHANGED <<manifest, schpc, company_result, update_failed, fusion,
                 parent_cache, relevance, gate, mgr>>
  /\ lastOp' = NoResponse

Init ==
  /\ company = <<>>
  /\ channel = <<>>
  /\ liveChannels = {}
  /\ nextChannel = 0
  /\ feed = [d \in DriveIds |-> <<>>]
  /\ clock = 1
  /\ lastOp = NoResponse
  /\ hpc = [h \in Handlers |-> "idle"]
  /\ hst = [h \in Handlers |-> HIdle]
  /\ seen = [d \in DriveIds |-> {}]
  /\ lastDispatchAt = [u \in UUIDs |-> 0]
  /\ jobs = <<>>
  /\ SyncInit

vars == <<watchVars, driveVars, lastOp, routerVars, jobs, syncVars>>

\* The watch manager's calls, one at a time.
Next ==
  \/ \E u \in UUIDs, f \in FolderIds, v4 \in BOOLEAN : create_watch(u, f, v4)
  \/ \E u \in UUIDs, f \in FolderIds, v4 \in BOOLEAN : save_company_state_only(u, f, v4)
  \/ \E u \in UUIDs : stop_watch(u)
  \/ \E uuids \in SUBSET UUIDs : re_register_companies(uuids)
  \/ \E c \in 1..MaxChannels : channel_expires(c)

Spec == Init /\ [][Next]_vars

\* The sync worker of one tenant, run after run, and its Drive folder.
NextSync ==
  \/ \E f \in FileIds : drive_add_file(f)
  \/ \E f \in FileIds : drive_remove_file(f)
  \/ \E v4 \in BOOLEAN, loadOk \in BOOLEAN : sync_start(v4, loadOk)
  \/ sync_list_raises
  \/ \E out \in FileOutcomes, wok \in BOOLEAN : sync_file(out, wok)
  \/ \E wok \in BOOLEAN : sync_final_save(wok)

SpecSync == Init /\ [][NextSync]_vars

\* One tenant's worker on a folder that only grows, with termination
\* signals arriving at any point of a run.
NextSignal ==
  \/ \E f \in FileIds : drive_add_file(f)
  \/ sync_start(FALSE, TRUE)
  \/ \E out \in FileOutcomes, wok \in BOOLEAN : sync_file(out, wok)
  \/ \E wok \in BOOLEAN : sync_final_save(wok)
  \/ \E batch \in BOOLEAN, wok \in BOOLEAN : sync_signal(batch, wok)

SpecSignal == Init /\ [][NextSignal]_vars

\* One search over the artifact it finds. A call keeps nothing for the next
\* one (a new ImageSearcher per call, main.py lines 561, 602 and 651), so the
\* calls are followed one at a time from the initial state.
NextSearch ==
  /\ searched = NoSearch
  /\ \/ \E blob \in Blobs, top_k \in TopKs, exclude_files \in SUBSET Filenames :
          search_ranked(blob, top_k, exclude_files)
     \/ \E blob \in Blobs, top_k \in TopKs, top_n \in TopNs,
           exclude_files \in SUBSET Filenames :
          search_shuffle(blob, top_k, top_n, exclude_files)
     \/ \E blob \in Blobs, count \in TopKs, exclude_files \in SUBSET Filenames :
          search_random_images(blob, count, exclude_files)

SpecSearch == Init /\ [][NextSearch]_vars

\* The scheduler's runs for one tenant whose Drive folder changes.
NextSched ==
  \/ \E f \in FileIds : drive_add_file(f)
  \/ \E f \in FileIds : drive_remove_file(f)
  \/ \E listOk \in BOOLEAN : sched_check(listOk)
  \/ \E raised \in BOOLEAN, errs \in SUBSET {"b"} : sched_update(raised, errs)
  \/ \E ok \in BOOLEAN : sched_manifest(ok)

SpecSched == Init /\ [][NextSched]_vars

\* One router filters changes for the folders of two companies, FA and FC,
\* while users move folders and files().get fails now and then for FB.
NextFilter ==
  \/ \E f \in FolderIds : \E parents \in MoveTargets(f) :
       drive_move_folder(f, parents)
  \/ \E change \in FileChanges, folder_id \in {"FA", "FC"},
        failing \in {{}, {"FB"}} :
       filter_relevant_change(change, folder_id, failing)

SpecFilter == Init /\ [][NextFilter]_vars

\* One call of the scheduler's gate.
NextGate ==
  /\ gate = NoGate
  /\ \E blob \in BlobKinds, files \in FileIndexes, drive_files \in FileIndexes :
       gate_check(blob, files, drive_files)

SpecGate == Init /\ [][NextGate]_vars

\* One embed_multimodal call of either provider; a call keeps nothing that
\* the next one reads.
NextFusion ==
  /\ fusion = NoFusion
  /\ \E provider \in {"vertex", "cohere"}, text_embedding \in Vectors \cup {<<>>},
        image_embedding \in Vectors :
       embed_multimodal(provider, text_embedding, image_embedding)

SpecFusion == Init /\ [][NextFusion]_vars

\* One batch execution of the worker.
NextBatch ==
  \/ \E tasks \in BatchLists : batch_main(tasks)
  \/ \E raised \in BOOLEAN : batch_task(raised)

SpecBatch == Init /\ [][NextBatch]_vars

\* The folder each tenant registers in the router's and dispatcher's runs.
HomeFolder(u) == IF u = "T1" THEN "FA" ELSE "FB"

\* The dispatcher's launches: the two endpoints, and the router's dispatches
\* made by one instance for the tenants registered on the shared drive.
NextJobs ==
  \/ \E u \in UUIDs : u \notin DOMAIN company /\ create_watch(u, HomeFolder(u), FALSE)
  \/ \E c \in Changes("D1") : drive_change("D1", c)
  \/ \E c \in liveChannels : h_receive("h1", c, "change", "content")
  \/ HandlerRuns("h1")
  \/ \E u \in UUIDs, ok \in BOOLEAN : post_vectorize(u, ok)
  \/ \E tasks \in BatchTasks, ok \in BOOLEAN : post_vectorize_batch(tasks, ok)
  \/ \E j \in 1..MaxJobs : job_task_ends(j)

SpecJobs == Init /\ [][NextJobs]_vars

\* One instance of the service serving every kind of notification for the
\* tenants of the shared drive, who register and register again. A change
\* in FA concerns T1 alone, a change in FB (inside FA) or a removal both.
NextRouter ==
  \/ \E u \in UUIDs : create_watch(u, HomeFolder(u), FALSE)
  \/ \E c \in Changes("D1") : drive_change("D1", c)
  \/ tick
  \/ \E c \in 1..MaxChannels, rs \in {"sync", "change"},
        ct \in {"", "content", "properties"} : h_receive("h1", c, rs, ct)
  \/ HandlerRuns("h1")
  \/ \E j \in 1..MaxJobs : job_task_ends(j)

SpecRouter == Init /\ [][NextRouter]_vars

\* One instance of the service handles the change notifications of the
\* shared drive, whose tenants register once each.
NextFeed ==
  \/ \E u \in UUIDs :
       u \notin DOMAIN company /\ create_watch(u, HomeFolder(u), FALSE)
  \/ \E c \in Changes("D1") : drive_change("D1", c)
  \/ tick
  \/ \E c \in liveChannels : h_receive("h1", c, "change", "content")
  \/ HandlerRuns("h1")
  \/ \E j \in 1..MaxJobs : job_task_ends(j)

SpecFeed == Init /\ [][NextFeed]_vars

\* One instance of the service answers every kind of notification for the
\* channels of tenant T1, who registers folder FA of the shared drive or
\* folder FC of My Drive and may change from one to the other.
NextEarly ==
  \/ \E f \in {"FA", "FC"} : create_watch("T1", f, FALSE)
  \/ \E c \in Changes("D1") : drive_change("D1", c)
  \/ \E c \in liveChannels, rs \in {"sync", "change"},
        ct \in {"", "content", "properties"} : h_receive("h1", c, rs, ct)
  \/ HandlerRuns("h1")
  \/ \E j \in 1..MaxJobs : job_task_ends(j)

SpecEarly == Init /\ [][NextEarly]_vars

\* One instance of the service handles a change notification for tenant T1
\* while the operator re-registers the drive's channel or removes T1.
NextReplace ==
  \/ "T1" \notin DOMAIN company /\ create_watch("T1", HomeFolder("T1"), FALSE)
  \/ \E c \in Changes("D1") : drive_change("D1", c)
  \/ \E c \in liveChannels : h_receive("h1", c, "change", "content")
  \/ HandlerRuns("h1")
  \/ re_register_companies({})
  \/ stop_watch("T1")
  \/ \E j \in 1..MaxJobs : job_task_ends(j)

SpecReplace == Init /\ [][NextReplace]_vars

\* Tenant T1 is registered on the shared drive; then one instance of the
\* service runs stop_watch(T1) while another runs create_watch(T2) for a
\* folder of the same drive.
NextRace ==
  \/ /\ "T1" \notin DOMAIN company /\ mgr = NoMgr
     /\ create_watch("T1", HomeFolder("T1"), FALSE)
     /\ UNCHANGED mgr
  \/ \E c \in Changes("D1") : drive_change("D1", c)
  \/ sw_delete_company("T1")
  \/ sw_list_remaining
  \/ sw_load_drive_state
  \/ \E out \in {"ok", "gone", "error"} : sw_stop_channel(out)
  \/ sw_delete_drive_state
  \/ \E v4 \in BOOLEAN : cw_save_company("T2", HomeFolder("T2"), v4)
  \/ cw_load_drive_state
  \/ \E ok \in BOOLEAN : cw_create_channel(ok)

SpecRace == Init /\ [][NextRace]_vars

\* Two instances of the service handle the notifications Drive sends for
\* the channel of one registered tenant.
NextNotify ==
  \/ "T1" \notin DOMAIN company /\ create_watch("T1", HomeFolder("T1"), FALSE)
  \/ \E c \in Changes("D1") : drive_change("D1", c)
  \/ tick
  \/ \E h \in Handlers, c \in liveChannels : h_receive(h, c, "change", "content")
  \/ \E h \in Handlers : HandlerRuns(h)
  \/ \E j \in 1..MaxJobs : job_task_ends(j)

SpecNotify == Init /\ [][NextNotify]_vars

\* ------------------------------------------------------------------ claims

\* C1: for every tenant UUID, at most one Sync Engine run for that UUID is
\* in progress at any time, whatever launched the job executions.
C1_OneRunPerTenant ==
  \A u \in UUIDs : Cardinality(RunningFor(u)) <= 1

\* C2: with cooldown C > 0, a dispatch the router makes for a tenant comes
\* at least C seconds after the router's dispatch before it for that tenant
\* (both timed by the `now` of the invocation that made them).
C2_OneDispatchPerWindow ==
  [][ (lastOp'.op = "dispatch" /\ lastOp'.result = "started") =>
        LET u == lastOp'.uuid
        IN \/ lastDispatchAt[u] = 0
           \/ lastDispatchAt'[u] - lastDispatchAt[u] >= CooldownSeconds ]_vars

\* C5: a page_token handle_notification persists for a DriveChannelState,
\* other than the reset after a 410, is not behind the one stored before.
C5_TokenMonotone ==
  [][ (lastOp'.op = "save_token" /\ lastOp'.result = "advance") =>
        LET d == lastOp'.drive_id
        IN (d \in DOMAIN channel
            /\ channel[d].channel_id = channel'[d].channel_id)
           => channel'[d].page_token >= channel[d].page_token ]_vars

\* C6: no change entry is returned by changes().list, and so by
\* _consume_drive_change_feed, to more than one invocation: every entry of
\* a returned page is returned for the first time.
C6_NoChangeReadTwice ==
  [][ lastOp'.op = "list_changes" =>
        LET d == lastOp'.drive_id
        IN Cardinality(seen'[d]) = Cardinality(seen[d]) + lastOp'.count ]_vars

IsPrefix(s, t) == Len(s) <= Len(t) /\ SubSeq(t, 1, Len(s)) = s

\* A run that returned after reading the artifact as persisted, skipping no
\* file and with its last upload stored.
CleanRunDone ==
  /\ spc = "done"
  /\ existing = artAtStart
  /\ Len(task) = Len(existing) + Len(todo)
  /\ artifact = task

\* C3: after a sync that returns successfully the set of keys of the
\* persisted artifact equals the set of keys of the files in the Drive tree
\* (the code writes no corrupt entries, so none is there to preserve). Stated
\* for the runs that skipped nothing and whose reads and writes succeeded.
C3_ArtifactKeysEqualTree ==
  CleanRunDone => Keys(artifact) = FileKeys(listed)

\* C4 as claimed: a second sync on an unchanged Drive tree performs at most
\* one artifact write and leaves the persisted artifact equal to the one the
\* first run left.
C4_ResyncLeavesArtifact ==
  (spc = "done" /\ prevDone /\ listed = prevListed) =>
    (writes <= 1 /\ artifact = artAtStart)

\* C4 as amended: a second sync on an unchanged Drive tree performs no write
\* and leaves the artifact as it was when every listed file has an entry in
\* the artifact the run loaded; otherwise it re-attempts the files without an
\* entry, and the artifact it leaves, when the run loaded the persisted one,
\* extends that one by appended entries; it performs at most one write when
\* fewer than CHECKPOINT_INTERVAL files are attempted.
C4_ResyncAppendsOnly ==
  (spc = "done" /\ prevDone /\ listed = prevListed) =>
    /\ FileKeys(listed) \subseteq Keys(existing) =>
         (writes = 0 /\ artifact = artAtStart)
    /\ existing = artAtStart => IsPrefix(artAtStart, artifact)
    /\ Len(todo) < CHECKPOINT_INTERVAL => writes <= 1

\* A second run on the unchanged, non-empty tree found every file processed.
C4_Witness ==
  /\ spc = "done" /\ prevDone /\ listed = prevListed
  /\ listed # {}
  /\ FileKeys(listed) \subseteq Keys(existing)
  /\ artifact # <<>>
  /\ writes = 0

\* C7: no two entries of the persisted artifact have the same
\* (folder_path, filename).
C7_UniqueKeys ==
  spc = "done" =>
    \A i, j \in 1..Len(artifact) :
      i # j => artifact[i].key # artifact[j].key

\* C8: all entries of the persisted artifact (the code writes no corrupt
\* ones) carry embeddings of one and the same dimension.
C8_OneDimension ==
  spc = "done" =>
    \A i, j \in 1..Len(artifact) : artifact[i].dim = artifact[j].dim

\* C9: a stop_watch(uuid) that returns deletes the tenant's CompanyState; it
\* stops and deletes the DriveChannelState of the tenant's drive iff no other
\* CompanyState with the same drive_id remains, and otherwise leaves every
\* DriveChannelState (and the live channels) unchanged.
C9_StopWatchLastSubscriber ==
  [][ (lastOp'.op = "stop_watch" /\ lastOp'.result = "returned") =>
        LET u == lastOp'.uuid
        IN /\ u \in DOMAIN company
           /\ company' = Remove(company, u)
           /\ LET d == company[u].drive_id
                  others == {x \in (DOMAIN company) \ {u} : company[x].drive_id = d}
              IN IF others = {}
                 THEN /\ d \notin DOMAIN channel'
                      /\ d \in DOMAIN channel =>
                           channel[d].channel_id \notin liveChannels'
                      /\ \A e \in (DOMAIN channel) \ {d} :
                           e \in DOMAIN channel' /\ channel'[e] = channel[e]
                      /\ lastOp'.drive_channel_stopped = (d \in DOMAIN channel)
                 ELSE /\ channel' = channel
                      /\ liveChannels' = liveChannels
                      /\ ~lastOp'.drive_channel_stopped ]_vars

\* A stop_watch has just stopped a drive's channel while another drive's
\* channel, with its subscriber, is still stored.
C9_Witness ==
  /\ lastOp.op = "stop_watch"
  /\ lastOp.result = "returned"
  /\ lastOp.drive_channel_stopped
  /\ \E u \in DOMAIN company : company[u].drive_id \in DOMAIN channel

\* C10: in every reachable state a DriveChannelState exists for drive D iff
\* at least one CompanyState has drive_id D.
C10_ChannelIffSubscriber ==
  \A d \in DriveIds :
    (d \in DOMAIN channel) <=> (\E u \in DOMAIN company : company[u].drive_id = d)

\* C11: a create_watch for a UUID that is stored with the same folder, the
\* drive's channel being stored (the state a first call leaves), returns
\* is_new_channel = false and drive_channel_created = false, creates no Drive
\* channel, and leaves the stored DriveChannelStates (channel_id, resource_id,
\* page_token) and the tenant's last_job_trigger_ts unchanged.
C11_SecondCreateWatchPreserves ==
  [][ (lastOp'.op = "create_watch" /\ lastOp'.result = "returned") =>
        LET u == lastOp'.uuid
        IN (/\ u \in DOMAIN company
            /\ company'[u].folder_id = company[u].folder_id
            /\ company[u].drive_id \in DOMAIN channel)
           => /\ ~lastOp'.is_new_channel
              /\ ~lastOp'.drive_channel_created
              /\ channel' = channel
              /\ liveChannels' = liveChannels
              /\ nextChannel' = nextChannel
              /\ company'[u].last_job_trigger_ts
                   = company[u].last_job_trigger_ts ]_vars

\* A repeated create_watch has returned for a tenant whose stored
\* last_job_trigger_ts is set.
C11_Witness ==
  /\ lastOp.op = "create_watch"
  /\ lastOp.result = "returned"
  /\ ~lastOp.is_new_channel
  /\ ~lastOp.drive_channel_created
  /\ lastOp.uuid \in DOMAIN company
  /\ company[lastOp.uuid].last_job_trigger_ts # NoTs

\* C12: a notification whose channel_id matches no stored DriveChannelState
\* is answered handled = false (reason unknown_channel); the handler goes no
\* further, no job execution starts, and every DriveChannelState and
\* CompanyState stays as it was.
C12_UnknownChannelNoOp ==
  [][ (/\ lastOp'.op = "handle_notification"
       /\ \A d \in DOMAIN channel : channel[d].channel_id # lastOp'.channel_id)
      => /\ lastOp'.result = "unknown_channel"
         /\ UNCHANGED <<company, channel, liveChannels, nextChannel, jobs,
                        lastDispatchAt, hpc, hst>> ]_vars

\* A notification for a channel id no state holds has been answered while a
\* DriveChannelState with subscribers is stored.
C12_Witness ==
  /\ lastOp.op = "handle_notification"
  /\ lastOp.result = "unknown_channel"
  /\ \E d \in DOMAIN channel :
       /\ channel[d].channel_id # lastOp.channel_id
       /\ list_company_states(company, d) # {}

\* The claimed condition for a dispatch: no timestamp, no cooldown, or the
\* cooldown has elapsed at `now`.
Due(state, now) ==
  \/ CooldownSeconds = 0
  \/ state.last_job_trigger_ts = NoTs
  \/ now - state.last_job_trigger_ts >= CooldownSeconds

\* The companies of the invocation's list with a relevant change that are due.
MatchedDue(h, now) ==
  {k \in 1..Len(hst[h].comps) :
     /\ filter_relevant_changes(hst[h].changes,
                                hst[h].comps[k].state.folder_id) # <<>>
     /\ Due(hst[h].comps[k].state, now)}

\* C13: handle_notification invokes the Dispatcher for a tenant only when a
\* relevant change matched it and it is due by its stored last_job_trigger_ts;
\* after the dispatch it persists the CompanyState with last_job_trigger_ts =
\* now and nothing else changed; no other step of the handler (a skip
\* included) changes a CompanyState; and an invocation whose Dispatcher calls
\* all returned has, when it returns, dispatched once for every matched tenant
\* that was due and for no other.
C13_DispatchIffDue ==
  [][ \A h \in Handlers :
        LET u == hst[h].comps[hst[h].i].uuid
        IN /\ (hpc[h] = "dispatch" /\ hpc'[h] = "save_company") =>
                /\ u \in DOMAIN company
                /\ filter_relevant_changes(hst[h].changes,
                                           company[u].folder_id) # <<>>
                /\ Due(company[u], hst[h].now)
                /\ jobs' = Append(jobs, <<u>>)
           /\ (hpc[h] = "save_company" /\ hpc'[h] # "save_company") =>
                /\ u \in DOMAIN company
                /\ company' = [company EXCEPT
                                 ![u].last_job_trigger_ts = hst[h].now]
           /\ (/\ hpc[h] # "save_company"
               /\ (hpc'[h] # hpc[h] \/ hst'[h] # hst[h])) =>
                company' = company
           /\ (hpc[h] = "save" /\ hpc'[h] = "idle") =>
                MatchedDue(h, clock) = {}
           /\ (hpc[h] = "save_company" /\ hpc'[h] = "idle") =>
                hst[h].triggered + 1 = Cardinality(MatchedDue(h, hst[h].now))
    ]_vars

\* A notification matched T1 and T2; T1 was inside its cooldown and skipped,
\* and the invocation's first Dispatcher call has just been made, for T2.
C13_Witness ==
  /\ lastOp.op = "dispatch" /\ lastOp.result = "started" /\ lastOp.uuid = "T2"
  /\ \E h \in Handlers :
       /\ hpc[h] = "save_company"
       /\ hst[h].triggered = 0
       /\ hst[h].i = 2
       /\ hst[h].comps[1].uuid = "T1"
       /\ filter_relevant_changes(hst[h].changes,
                                  hst[h].comps[1].state.folder_id) # <<>>
       /\ ~Due(hst[h].comps[1].state, hst[h].now)

\* C14: when the Drive tree enumerates as empty, a sync that read a
\* non-empty persisted artifact replaces it with [] using exactly one write,
\* and a sync that found the artifact empty or absent performs no write.
C14_EmptyTreeClearsArtifact ==
  (spc = "done" /\ listed = {} /\ existing = artAtStart) =>
    IF artAtStart # <<>>
    THEN artifact = <<>> /\ writes = 1
    ELSE writes = 0

\* C15: sync removes from the working copy every entry whose key is no
\* longer in the Drive tree, and when there is such an entry the artifact
\* without those entries is persisted before any new file is downloaded or
\* embedded (that is, by the time the run enters its loop or returns).
C15_DeletionsPersistedFirst ==
  [][ (/\ runs' = runs + 1
       /\ spc' \in {"loop", "done"}
       /\ existing' = artifact)
      => LET current(e) == e.key \in FileKeys(listed')
             kept == SelectSeq(existing', current)
         IN /\ task' = kept
            /\ kept # existing' => artifact' = kept ]_vars

\* The pass over file f has just ended with res.
PassEnded(f, res) ==
  f \notin DOMAIN outcome /\ f \in DOMAIN outcome' /\ outcome'[f] = res

InSeq(x, sq) == \E k \in 1..Len(sq) : sq[k] = x

\* A run has just started and listed the Drive tree.
RunListed == runs' = runs + 1 /\ spc' \in {"loop", "done"}

\* C16: when normalization of a new file fails, sync appends an entry for
\* that file (the corrupt marker), and a later sync that still lists the file
\* does not attempt it again.
C16_CorruptEntryKept ==
  [][ \A f \in FileIds :
        /\ PassEnded(f, "resize_none") => KeyOf(f) \in Keys(task')
        /\ (/\ RunListed
            /\ f \in DOMAIN outcome /\ outcome[f] = "resize_none"
            /\ f \in listed')
           => ~InSeq(f, todo') ]_vars

C18_SignalPersistsWorkingCopy ==
  [][ (/\ spc \in {"loop", "final"} /\ spc' = "killed"
       /\ \E f \in DOMAIN outcome : outcome[f] = "appended")
      => /\ writes' = writes + 1
         /\ artifact' \in {artifact, task} ]_vars

\* C19: in batch mode process_single_uuid is called for the tasks one after
\* another in list order, and after a task that raised as after one that
\* returned the next task of the list is called, so that when main ends every
\* task of the list has been called exactly once.
C19_BatchSequentialAndContinues ==
  /\ batch_i > 0 =>
       /\ IsPrefix(called, batch_tasks)
       /\ Len(called) = total_processed + total_errors
  /\ batch_i > Len(batch_tasks) => called = batch_tasks

\* A batch has ended in which a task raised and a later task was called.
C19_Witness ==
  /\ batch_i = Len(batch_tasks) + 1
  /\ Len(batch_tasks) >= 2
  /\ total_errors >= 1
  /\ total_processed >= 1
  /\ called = batch_tasks

\* The entries a search ranks: loaded, and not excluded by filename.
Retained ==
  LET kept(item) == item.filename \notin searched.exclude_files
  IN SelectSeq(LoadData(searched.raw_data), kept)

\* The latest call was of this mode and built its index.
Answered(mode) == searched.mode = mode /\ searched.status = "ok"

ValidRows ==
  LET data == LoadData(searched.raw_data)
  IN {i \in 1..Len(data) : data[i].filename \notin searched.exclude_files}

C22_RandomSample ==
  Answered("random") =>
  LET data == LoadData(searched.raw_data)
      n == Cardinality(ValidRows)
      count == searched.top_k
  IN /\ Len(results) = IF count < n THEN count ELSE n
     /\ \A i \in 1..Len(results) :
          /\ results[i].similarity = None
          /\ results[i].row \in ValidRows
          /\ results[i].filename = data[results[i].row].filename
          /\ \A j \in 1..Len(results) : results[i].row = results[j].row => i = j

\* A random search returned some but not all of the non-excluded entries of
\* an index that also holds an excluded one.
C22_Witness ==
  /\ Answered("random")
  /\ Len(results) = searched.top_k
  /\ Len(results) >= 1
  /\ Len(results) < Cardinality(ValidRows)
  /\ Cardinality(ValidRows) < Len(LoadData(searched.raw_data))

\* C23: in every search mode and for every exclusion list no returned result
\* has a filename in exclude_files; an entry is excluded for its filename
\* alone, and before the candidates are ranked or sampled, so that excluded
\* entries take none of the places asked for.
C23_ExcludedNeverReturned ==
  searched.status = "ok" =>
  LET data == LoadData(searched.raw_data)
      free == {i \in 1..Len(data) : data[i].filename \notin searched.exclude_files}
      k == searched.top_k
  IN /\ \A i \in 1..Len(results) :
          /\ results[i].filename \notin searched.exclude_files
          /\ results[i].row \in free
     /\ Len(results) = IF k < Cardinality(free) THEN k ELSE Cardinality(free)

\* A random search asked for every indexed entry and returned all but the
\* excluded one.
C23_Witness ==
  /\ Answered("random")
  /\ searched.top_k >= Len(LoadData(searched.raw_data))
  /\ Len(results) >= 1
  /\ Len(results) < Len(LoadData(searched.raw_data))
  /\ searched.exclude_files # Filenames

\* C24: building the Search Index fails with not_found, in every search
\* mode, iff the tenant's artifact is absent; for an existing artifact, the
\* empty array included, the index is built and holds exactly the entries
\* that are not is_corrupt and have an embedding, so every result is such an
\* entry.
C24_IndexOfExistingArtifact ==
  searched.mode # "none" =>
    /\ searched.status = "not_found" <=> ~searched.exists
    /\ searched.exists =>
         /\ searched.status = "ok"
         /\ \A i \in 1..Len(results) :
              LET item == LoadData(searched.raw_data)[results[i].row]
              IN /\ ~item.is_corrupt /\ item.embedding
                 /\ item.filename = results[i].filename

\* C25: in a scheduler run the tenant's Manifest is rewritten only after the
\* tenant's update succeeded; when the update failed with an error the
\* Manifest is left unchanged, so that the next run detects the change again.
C25_ManifestOnlyAfterSuccess ==
  [][ (schpc = "updated" /\ schpc' = "idle" /\ update_failed)
        => manifest' = manifest ]_vars

\* C26: after a drive's push channel has expired, the next create_watch for
\* a tenant on that drive stores a new, live channel_id for the drive, and a
\* re_register_companies that returns leaves every drive it gave a new
\* channel with a live one; the old channel_id then resolves to no stored
\* DriveChannelState.
C26_ExpiredChannelRecreated ==
  [][ /\ (lastOp'.op = "create_watch" /\ lastOp'.result = "returned") =>
           LET d == company'[lastOp'.uuid].drive_id
           IN (d \in DOMAIN channel /\ channel[d].channel_id \notin liveChannels)
                => /\ channel'[d].channel_id # channel[d].channel_id
                   /\ channel'[d].channel_id \in liveChannels'
                   /\ \A e \in DOMAIN channel' :
                        channel'[e].channel_id # channel[d].channel_id
      /\ (lastOp'.op = "re_register_companies" /\ lastOp'.result = "returned") =>
           \A d \in DOMAIN channel :
             (d \in DOMAIN channel' /\ channel'[d] # channel[d])
               => /\ channel'[d].channel_id \in liveChannels'
                  /\ \A e \in DOMAIN channel' :
                       channel'[e].channel_id # channel[d].channel_id ]_vars

\* C27: for both providers the fused vector is w.t + (1 - w).i, with w the
\* cosine of t and i clamped to [0, 1], and 1/2 when either norm is zero;
\* so when the text vector and the image vector are identical the fused
\* vector equals that vector.
C27_FusionWeightedByCosine ==
  fusion.provider # "none" =>
    LET t == fusion.text_vec
        i == fusion.image_vec
        w == fusion.weight
        cross == Dot(t, i)
        norms == Norm(t) * Norm(i)
    IN /\ Len(t) = Len(i) /\ Len(fusion.final_vec) = Len(t)
       /\ w.den > 0 /\ 0 <= w.num /\ w.num <= w.den
       /\ norms = 0 => 2 * w.num = w.den
       /\ norms # 0 =>
            /\ cross <= 0 => w.num = 0
            /\ cross >= norms => w.num = w.den
            /\ (0 < cross /\ cross < norms) => w.num * norms = cross * w.den
       /\ \A k \in 1..Len(t) :
            fusion.final_vec[k] = w.num * t[k] + (w.den - w.num) * i[k]
       /\ t = i => \A k \in 1..Len(t) : fusion.final_vec[k] = w.den * t[k]

\* Cohere fused a text vector and an identical, non-zero image vector.
C27_Witness ==
  /\ fusion.provider = "cohere"
  /\ fusion.text_vec = fusion.image_vec
  /\ Norm(fusion.text_vec) > 0
  /\ fusion.weight.num = fusion.weight.den
  /\ \E k \in 1..Len(fusion.final_vec) : fusion.final_vec[k] # 0

\* The step is one of handler h past its reads.
HandlerSteps(h) == hpc'[h] # hpc[h] \/ hst'[h] # hst[h]

\* The step of handler h ends its change-feed step: by the save of lines
\* 522-529, or by the save of lines 507-511 after a 410.
FeedStepEnds(h) ==
  \/ hpc[h] = "save"
  \/ hpc[h] = "feed" /\ hpc'[h] = "idle"

\* An invocation goes from the feed to the save, from the save to the
\* dispatch loop or to its return, and from the loop to its return; the
\* drive state is saved by the step that ends the change-feed step and by
\* no other, and the Dispatcher is called in the loop only.
TokenSavedOnceBeforeDispatch(h) ==
  /\ hpc'[h] \in {"feed", "save"} => hpc[h] \in {"idle", "feed"}
  /\ hpc[h] = "save" => hpc'[h] \in {"dispatch", "idle"}
  /\ hpc[h] \in {"dispatch", "save_company"} =>
       hpc'[h] \in {"dispatch", "save_company", "idle"}
  /\ lastOp'.op = "save_token" <=> FeedStepEnds(h)
  /\ lastOp'.op = "dispatch" => hpc[h] = "dispatch"

\* The token the feed returned last to handler h: the token the handler
\* started from, moved past the changes it has read.
LastFeedToken(h) == hst[h].ds.page_token + Len(hst[h].changes)

\* C28 as stated: in every handle_notification invocation that reaches the
\* change-feed step and completes without error, the drive's page_token is
\* persisted exactly once, before the first Dispatcher call, and the
\* persisted value is the last token the feed returned (newStartPageToken,
\* else nextPageToken).
C28_PersistedTokenIsFeedToken ==
  [][\A h \in Handlers : HandlerSteps(h) =>
       /\ TokenSavedOnceBeforeDispatch(h)
       /\ FeedStepEnds(h) =>
            channel'[hst[h].ds.drive_id].page_token = LastFeedToken(h)]_vars

\* C28, amended: in every handle_notification invocation that reaches the
\* change-feed step and completes without error, the drive's page_token is
\* persisted exactly once, before the first Dispatcher call; the persisted
\* value is the newStartPageToken of the feed's last page or, when
\* list_changes answered 410, a fresh start page token.
C28_TokenPersistedOnceBeforeDispatch ==
  [][\A h \in Handlers : HandlerSteps(h) =>
       /\ TokenSavedOnceBeforeDispatch(h)
       /\ hpc[h] = "save" =>
            channel'[hst[h].ds.drive_id].page_token = LastFeedToken(h)
       /\ (hpc[h] = "feed" /\ hpc'[h] = "idle") =>
            channel'[hst[h].ds.drive_id].page_token
              = StartPageToken(hst[h].ds.drive_id)]_vars

\* The handler has read two changes, has saved the token that follows them,
\* and is about to make its first Dispatcher call.
C28_Witness ==
  /\ hpc["h1"] = "dispatch"
  /\ lastOp.op = "save_token"
  /\ Len(hst["h1"].changes) = 2
  /\ channel[hst["h1"].ds.drive_id].page_token = LastFeedToken("h1")
  /\ hst["h1"].triggered = 0

\* C29: when list_changes answers 410 on any page of a notification run,
\* the router sets the drive's page_token to a fresh start page token and
\* persists it, reports zero changes for the run (the changes read from
\* earlier pages are dropped), and dispatches no job.
C29_ExpiredTokenResets ==
  [][\A h \in Handlers : (HandlerSteps(h) /\ lastOp'.result = "reset") =>
       LET d == hst[h].ds.drive_id
       IN /\ channel'[d].page_token = Len(feed[d]) + 1
          /\ lastOp'.op = "save_token" /\ lastOp'.count = 0
          /\ hpc'[h] = "idle" /\ hst'[h].changes = <<>>
          /\ jobs' = jobs /\ lastDispatchAt' = lastDispatchAt]_vars

\* A 410 ended a run on a drive of whose two changes the first alone has
\* ever been listed; the token is the fresh one, past the second change, and
\* no job has ever been dispatched.
C29_Witness ==
  /\ lastOp.op = "save_token" /\ lastOp.result = "reset"
  /\ hpc["h1"] = "idle"
  /\ Len(feed["D1"]) = 2 /\ seen["D1"] = {1}
  /\ channel["D1"].page_token = 3
  /\ jobs = <<>> /\ \A u \in UUIDs : lastDispatchAt[u] = 0

\* The folders reached from the folders of S by following the parent links.
RECURSIVE AncestorsOf(_, _)
AncestorsOf(links, S) ==
  LET T == S \cup {p \in FolderIds :
                     \E f \in S : \E k \in 1..Len(links[f]) : links[f][k] = p}
  IN IF T = S THEN S ELSE AncestorsOf(links, T)

\* C30: a change is counted as relevant to company C iff it is a removal, or
\* some parent of the changed file is C's folder_id or reaches C's folder_id
\* by following parent links. (The descent ends on every graph the cache
\* can hold, cycles included: every evaluation of IsDescendant does.)
C30_RelevantIffUnderFolder ==
  [][(relevance' # relevance /\ folder_parents' = folder_parents) =>
       LET c == relevance'.change
       IN relevance'.relevant <=>
            \/ c.removed
            \/ \E k \in 1..Len(c.parents) :
                 relevance'.folder_id
                   \in AncestorsOf(folder_parents, {c.parents[k]})]_vars

\* C31: during sync the full working copy is persisted after every
\* CHECKPOINT_INTERVAL-th successful append, counted over the successful
\* appends of the run and not over the files attempted, so that at most
\* CHECKPOINT_INTERVAL - 1 appended entries are ever unpersisted.
C31_CheckpointEveryIntervalAppends ==
  [][ \A f \in FileIds :
        (/\ PassEnded(f, "appended")
         /\ (Len(task') - Len(existing)) % CHECKPOINT_INTERVAL = 0)
        => writes' = writes + 1 ]_vars

\* C32: when processing one file raises an exception during sync (the Drive
\* download fails), the working copy accumulated so far is persisted before
\* the loop continues with the next file.
C32_ExceptionPersistsWorkingCopy ==
  [][ \A f \in FileIds :
        (PassEnded(f, "download_error") /\ task # existing)
        => writes' = writes + 1 ]_vars

\* C40: a sync run never removes from the persisted artifact an entry whose
\* file is still present in the Drive tree, also when reading the existing
\* artifact fails at the start of the run.
C40_StoredEntriesOfPresentFilesKept ==
  [][ \A k \in 1..Len(artifact) :
        artifact[k].file \in tree' => artifact[k].key \in Keys(artifact') ]_vars

\* Some file of both indexes differs in modifiedTime, size or checksum.
MetadataDiffers(prev, cur) ==
  \E f \in (DOMAIN prev) \cap (DOMAIN cur) :
    \/ prev[f].modifiedTime # cur[f].modifiedTime
    \/ prev[f].size # cur[f].size
    \/ prev[f].md5Checksum # cur[f].md5Checksum

\* C33: the scheduler gate reports that a tenant needs an update iff the set
\* of Drive file ids differs from the Manifest's set, or some file present in
\* both differs in modifiedTime, size or checksum; otherwise the tenant is
\* skipped; an error during the Manifest check counts as needing an update.
C33_GateDetectsChanges ==
  gate.blob # "none" =>
    (gate.needs_update <=>
       \/ gate.blob \in {"unreadable", "malformed"}
       \/ DOMAIN gate.files # DOMAIN gate.drive_files
       \/ MetadataDiffers(gate.files, gate.drive_files))

EarlyStatuses == {"sync", "filtered_changed_type", "no_companies"}

\* C34: in the early-return cases of handle_notification for a known channel
\* (resource_state "sync"; changed_types present without "content"; no
\* company subscribed to the drive) the handler returns handled = true, does
\* not read or advance the change feed, leaves page_token and every
\* CompanyState unchanged, and dispatches no job.
C34_EarlyReturnsChangeNothing ==
  [][ (lastOp'.op = "handle_notification" /\ lastOp'.result \in EarlyStatuses)
      => /\ lastOp'.drive_id \in DOMAIN channel
         /\ channel[lastOp'.drive_id].channel_id = lastOp'.channel_id
         /\ lastOp'.result = "no_companies" =>
              \A u \in DOMAIN company : company[u].drive_id # lastOp'.drive_id
         /\ UNCHANGED <<company, channel, liveChannels, feed, seen, jobs,
                        lastDispatchAt, hpc, hst>> ]_vars

\* A sync notification has been answered for a drive whose feed holds a
\* change the stored page_token has not passed, the handler being idle and
\* no job started.
C34_Witness ==
  /\ lastOp.op = "handle_notification" /\ lastOp.result = "sync"
  /\ lastOp.drive_id = "D1"
  /\ channel["D1"].page_token <= Len(feed["D1"])
  /\ seen["D1"] = {}
  /\ hpc["h1"] = "idle" /\ jobs = <<>>

\* C39: when create_watch fails while creating the Drive channel
\* (getStartPageToken or changes().watch raises), the Watch State Store is
\* left as it was before the call: no CompanyState for the uuid is created or
\* modified.
C39_FailedCreateWatchLeavesStore ==
  [][ (lastOp'.op = "create_watch" /\ lastOp'.result = "raised")
      => UNCHANGED <<company, channel>> ]_vars

\* The step is handler h's trigger_vectorization_job call raising.
DispatchRaisedBy(h) ==
  /\ hpc[h] = "dispatch"
  /\ lastOp'.op = "dispatch" /\ lastOp'.result = "raised"
  /\ lastOp'.uuid = hst[h].comps[hst[h].i].uuid
  /\ <<hpc'[h], hst'[h]>> # <<hpc[h], hst[h]>>

\* C37: a Dispatcher failure for one matched tenant during
\* handle_notification does not prevent the Dispatcher from being invoked
\* for the remaining matched tenants of that notification (the handler goes
\* on to the next matched tenant outside its cooldown), and the failed
\* tenant's last_job_trigger_ts stays unchanged.
C37_DispatchFailureSparesTheRest ==
  [][ \A h \in Handlers :
        DispatchRaisedBy(h) =>
          LET matches == match_changes_to_companies(hst[h].changes,
                                                    hst[h].comps)
              nxt == NextTrigger(hst[h].comps, matches, hst[h].now,
                                 hst[h].i + 1)
          IN /\ company' = company
             /\ nxt # 0 => (hpc'[h] = "dispatch" /\ hst'[h].i = nxt) ]_vars

\* The companies of handler h's run that its changes match and that are
\* inside their cooldown at time now.
SkippedForCooldown(h, now) ==
  {hst[h].comps[i].uuid : i \in
     {k \in 1..Len(hst[h].comps) :
        /\ hst[h].comps[k].uuid \in
             match_changes_to_companies(hst[h].changes, hst[h].comps)
        /\ InCooldown(hst[h].comps[k].state, now)}}

C35_HandlerKeepsReplacedChannel ==
  [][ \A h \in Handlers :
        (hpc[h] \in {"feed", "save"} /\ lastOp'.op = "save_token"
         /\ hpc'[h] # hpc[h])
        => LET d == hst[h].ds.drive_id
           IN IF d \in DOMAIN channel
              THEN /\ d \in DOMAIN channel'
                   /\ channel'[d].channel_id = channel[d].channel_id
              ELSE d \notin DOMAIN channel' ]_vars

\* C36: in every interleaving of create_watch(T2) with stop_watch(T1) for
\* two tenants on the same drive, once both calls have returned
\* successfully a DriveChannelState exists for that drive and its Drive
\* channel has not been stopped.
C36_SubscriberKeepsChannel ==
  (/\ mgr.sw = "returned" /\ mgr.cw = "returned"
   /\ mgr.sw_drive = mgr.cw_drive)
  => /\ mgr.cw_drive \in DOMAIN channel
     /\ channel[mgr.cw_drive].channel_id \in liveChannels
====
